---- MODULE Spec2Model ----
(***************************************************************************)
(* A model of wasm-heap-manager: the WasmHeapManager's cached typed views  *)
(* over a replaceable heap buffer, its polling modes, and the heap         *)
(* reference classes (numeric, pointer, string, typed array, pointer       *)
(* array) with their free / use-after-free behaviour.                      *)
(*                                                                         *)
(* Representation.  An ArrayBuffer object is an index into bufs, whose     *)
(* entry is the buffer's bytes (a detached buffer has no bytes).  A typed  *)
(* view is the index of the buffer it projects.  A heap cell's value is    *)
(* its little-endian byte sequence ("bits").  An operation is evaluated    *)
(* on a context record c that carries the manager's cache, the buffers,    *)
(* the calls made to the external capabilities and whether an error was    *)
(* thrown; once c.err holds the remaining statements are skipped.          *)
(***************************************************************************)
EXTENDS Integers, Sequences, FiniteSets, TLC

VARIABLES
    options,        \* WasmHeapManager.options (fixed by the constructor)
    heapLengths,    \* the byte lengths the embedder gives its buffers
    bufs,           \* every ArrayBuffer created so far: its bytes
    currentHeap,    \* the buffer heapGetter() returns now
    cachedHeap,     \* WasmHeapManager.cachedHeap
    cachedViews,    \* WasmHeapManager.cachedHeapInt8 .. cachedHeapFloat64
    refs,           \* the HeapRef objects issued so far
    agents,         \* the agents sharing the heap: each one's position in its call
    registry,       \* WasmHeapManager.finalizationRegistry and the collector's view
    arena,          \* an arena allocator: its fields and its memory's capacity
    last            \* what the last operation did and returned

vars ==
    <<options, heapLengths, bufs, currentHeap, cachedHeap, cachedViews, refs, agents, registry,
      arena, last>>

----------------------------------------------------------------------------
(* Bounds of the model *)

MaxHeapLength == 24
MaxBuffers == 2
MaxRefs == 1
MaxElementCount == 2
MaxWrites == 2

----------------------------------------------------------------------------
(* Typed views *)

\* The eleven cached views, in the order updateCache constructs them.
ViewOrder ==
    <<"Int8", "Uint8", "Uint8Clamped", "Int16", "Uint16", "Int32", "Uint32",
      "BigInt64", "BigUint64", "Float32", "Float64">>

ViewKinds == {ViewOrder[i] : i \in 1..Len(ViewOrder)}

ViewPosition(k) == CHOOSE i \in 1..Len(ViewOrder) : ViewOrder[i] = k

\* BYTES_PER_ELEMENT of each typed array class.
BytesPerElement(k) ==
    CASE k \in {"Int8", "Uint8", "Uint8Clamped"} -> 1
      [] k \in {"Int16", "Uint16"} -> 2
      [] k \in {"Int32", "Uint32", "Float32"} -> 4
      [] k \in {"BigInt64", "BigUint64", "Float64"} -> 8

Min(a, b) == IF a < b THEN a ELSE b
Max(a, b) == IF a > b THEN a ELSE b

\* new XArray(buffer) throws a RangeError unless the buffer's byte length is
\* a multiple of the element size.
ViewConstructible(k, bytes) == Len(bytes) % BytesPerElement(k) = 0

\* The length, in elements, of a view of kind k over the buffer b.
ViewLength(c, k) == Len(c.bufs[c.views[k]]) \div BytesPerElement(k)

----------------------------------------------------------------------------
(* Polling modes and options *)

PollingModes == {"never", "whenEmpty", "always"}

defaultWasmHeapManagerOptions ==
    [clearAllocatedRegions |-> TRUE, pollingMode |-> "whenEmpty",
     enableGarbageCollection |-> FALSE]

\* The options the model constructs managers with: the default
\* clearAllocatedRegions and enableGarbageCollection, and each polling mode.
OptionSets ==
    [clearAllocatedRegions : {TRUE}, pollingMode : PollingModes,
     enableGarbageCollection : {FALSE}]

----------------------------------------------------------------------------
(* The manager's cache *)

\* The context an operation starts from.
Ctx ==
    [cachedHeap |-> cachedHeap, views |-> cachedViews, bufs |-> bufs,
     heap |-> currentHeap, acc |-> << >>, getterCalls |-> 0, dealloc |-> << >>, allocs |-> 0,
     throwing |-> {}, err |-> FALSE]

Throw(c) == [c EXCEPT !.err = TRUE]

\* The first view, in construction order, whose constructor throws on the
\* buffer; Len(ViewOrder) + 1 when all eleven can be constructed.
FirstFailing(bytes) ==
    IF \A i \in 1..Len(ViewOrder) : ViewConstructible(ViewOrder[i], bytes)
    THEN Len(ViewOrder) + 1
    ELSE CHOOSE i \in 1..Len(ViewOrder) :
            /\ ~ViewConstructible(ViewOrder[i], bytes)
            /\ \A j \in 1..(i - 1) : ViewConstructible(ViewOrder[j], bytes)

\* WasmHeapManager.updateCache: the fields are assigned one after the other,
\* so a constructor that throws leaves the earlier fields replaced and the
\* later ones as they were.
updateCache(c, newHeap) ==
    LET failing == FirstFailing(c.bufs[newHeap]) IN
    [c EXCEPT !.cachedHeap = newHeap,
              !.views = [k \in ViewKinds |->
                            IF ViewPosition(k) < failing THEN newHeap ELSE c.views[k]],
              !.err = (failing <= Len(ViewOrder))]

\* The access log: d is the context after an access that started in c.  An
\* entry holds the cached buffer before the access, whether heapGetter was
\* called, the buffer it returned (0 when not called), whether updateCache
\* was called, and the cached buffer after.
Logged(c, d, polled, got, rebuilt) ==
    [d EXCEPT !.acc = Append(@, [before |-> c.cachedHeap, polled |-> polled,
                                 got |-> got, rebuilt |-> rebuilt,
                                 after |-> d.cachedHeap]),
              !.getterCalls = @ + (IF polled THEN 1 ELSE 0)]

\* A faulty variant: 'always' rebuilds only when the length differs.
updateCacheIfNeeded_lengthCompare(c, heap) ==
    IF c.err THEN c
    ELSE IF \/ options.pollingMode = "never"
            \/ options.pollingMode = "whenEmpty" /\ Len(c.bufs[c.cachedHeap]) > 0
    THEN Logged(c, c, FALSE, 0, FALSE)
    ELSE IF Len(c.bufs[heap]) # Len(c.bufs[c.cachedHeap])
    THEN Logged(c, updateCache(c, heap), TRUE, heap, TRUE)
    ELSE Logged(c, c, TRUE, heap, FALSE)

\* A faulty variant: 'whenEmpty' polls although the cached buffer is not empty.
updateCacheIfNeeded_pollNonEmpty(c, heap) ==
    IF c.err THEN c
    ELSE IF options.pollingMode = "never"
    THEN Logged(c, c, FALSE, 0, FALSE)
    ELSE IF Len(c.bufs[heap]) > 0
    THEN Logged(c, updateCache(c, heap), TRUE, heap, TRUE)
    ELSE Logged(c, c, TRUE, heap, FALSE)

\* A faulty variant: 'never' polls when the cached buffer is empty.
updateCacheIfNeeded_neverPolls(c, heap) ==
    IF c.err THEN c
    ELSE IF Len(c.bufs[c.cachedHeap]) > 0 /\ options.pollingMode # "always"
    THEN Logged(c, c, FALSE, 0, FALSE)
    ELSE IF Len(c.bufs[heap]) > 0
    THEN Logged(c, updateCache(c, heap), TRUE, heap, TRUE)
    ELSE Logged(c, c, TRUE, heap, FALSE)

\* A faulty variant: 'always' keeps the cache while it is not empty.
updateCacheIfNeeded_alwaysAsWhenEmpty(c, heap) ==
    IF c.err THEN c
    ELSE IF \/ options.pollingMode = "never"
            \/ Len(c.bufs[c.cachedHeap]) > 0
    THEN Logged(c, c, FALSE, 0, FALSE)
    ELSE IF Len(c.bufs[heap]) > 0
    THEN Logged(c, updateCache(c, heap), TRUE, heap, TRUE)
    ELSE Logged(c, c, TRUE, heap, FALSE)

\* A faulty variant: 'whenEmpty' also picks up a heap that has grown.
updateCacheIfNeeded_picksUpGrowth(c, heap) ==
    IF c.err THEN c
    ELSE IF \/ options.pollingMode = "never"
            \/ /\ options.pollingMode = "whenEmpty"
               /\ Len(c.bufs[c.cachedHeap]) > 0
               /\ Len(c.bufs[heap]) <= Len(c.bufs[c.cachedHeap])
    THEN Logged(c, c, FALSE, 0, FALSE)
    ELSE IF Len(c.bufs[heap]) > 0
    THEN Logged(c, updateCache(c, heap), TRUE, heap, TRUE)
    ELSE Logged(c, c, TRUE, heap, FALSE)

\* WasmHeapManager.updateCacheIfNeeded; heap is what heapGetter() returns.
updateCacheIfNeeded(c, heap) ==
    IF c.err THEN c
    ELSE IF \/ options.pollingMode = "never"
            \/ options.pollingMode = "whenEmpty" /\ Len(c.bufs[c.cachedHeap]) > 0
    THEN Logged(c, c, FALSE, 0, FALSE)
    ELSE IF Len(c.bufs[heap]) > 0
    THEN Logged(c, updateCache(c, heap), TRUE, heap, TRUE)
    ELSE Logged(c, c, TRUE, heap, FALSE)

\* The heapGetter callback of the embedder: the buffer that is the heap at
\* the moment of the call.
heapGetter(c) == c.heap

\* The getters heapInt8 .. heapFloat64: refresh the cache, then hand out the
\* cached view (c.views[k] of the returned context).
heapView(c) == updateCacheIfNeeded(c, heapGetter(c))

----------------------------------------------------------------------------
(* Heap cells *)

\* The little-endian bytes of the number v (0 <= v < 2^31) in a cell of w
\* bytes; a cell narrower than v keeps v's low bytes.
ToBits(v, w) == [i \in 1..w |-> IF i <= 4 THEN (v \div (256 ^ (i - 1))) % 256 ELSE 0]

\* Number(undefined)
NaN == -1

\* A number of 2^31 or more, which the model does not tell apart.
Huge == -2

\* Number(x) of a cell's value x (given as << >> for undefined, <<bits>>
\* otherwise).
ToNumber(x) ==
    IF x = << >> THEN NaN
    ELSE LET bits == x[1] IN
         IF /\ \A i \in 5..Len(bits) : bits[i] = 0
            /\ Len(bits) >= 4 => bits[4] < 128
         THEN LET byte(i) == IF i <= Len(bits) THEN bits[i] ELSE 0 IN
              byte(1) + 256 * byte(2) + 65536 * byte(3) + 16777216 * byte(4)
         ELSE Huge

IsZero(bits) == \A i \in 1..Len(bits) : bits[i] = 0

\* The bytes of one element of a view of kind k at element index idx
\* (0 <= idx < ViewLength(c, k)).
ElementBits(c, k, idx) ==
    LET w == BytesPerElement(k) IN
    [i \in 1..w |-> c.bufs[c.views[k]][idx * w + i]]

\* view[address / w]: undefined when address / w is not an integer or is
\* beyond the view's length.
ElementAt(c, k, address) ==
    LET w == BytesPerElement(k) IN
    IF address % w = 0 /\ address \div w < ViewLength(c, k)
    THEN <<ElementBits(c, k, address \div w)>>
    ELSE << >>

StoreBytes(bytes, offset, bits) ==
    [i \in 1..Len(bytes) |->
        IF i > offset /\ i <= offset + Len(bits) THEN bits[i - offset] ELSE bytes[i]]

\* view[idx] = bits for an element index within the view.
StoreElement(c, k, idx, bits) ==
    [c EXCEPT !.bufs[c.views[k]] = StoreBytes(@, idx * BytesPerElement(k), bits)]

\* WasmHeapManager.read<Kind>(address): this.heap<Kind>[address / w]
readElement(c, k, address) ==
    LET d == heapView(c) IN
    [c |-> d, v |-> IF d.err THEN << >> ELSE ElementAt(d, k, address)]

\* A faulty variant: the index is truncated, as the atomic stores do.
writeElement_truncated(c, k, address, bits) ==
    LET d == heapView(c)
        w == BytesPerElement(k) IN
    IF d.err \/ address \div w >= ViewLength(d, k)
    THEN d
    ELSE StoreElement(d, k, address \div w, bits)

\* WasmHeapManager.write<Kind>(address, value): this.heap<Kind>[address / w] =
\* value; a store to a non-integer or out-of-range index is ignored.
writeElement(c, k, address, bits) ==
    LET d == heapView(c)
        w == BytesPerElement(k) IN
    IF d.err \/ address % w # 0 \/ address \div w >= ViewLength(d, k)
    THEN d
    ELSE StoreElement(d, k, address \div w, bits)

\* WasmHeapManager.read<Kind>Atomic(address): Atomics.load(view, address / w)
\* truncates the index and throws a RangeError beyond the view's length.
readElementAtomic(c, k, address) ==
    LET d == heapView(c)
        idx == address \div BytesPerElement(k) IN
    IF d.err THEN [c |-> d, v |-> << >>]
    ELSE IF idx >= ViewLength(d, k) THEN [c |-> Throw(d), v |-> << >>]
    ELSE [c |-> d, v |-> <<ElementBits(d, k, idx)>>]

\* WasmHeapManager.write<Kind>Atomic(address, value)
writeElementAtomic(c, k, address, bits) ==
    LET d == heapView(c)
        idx == address \div BytesPerElement(k) IN
    IF d.err THEN d
    ELSE IF idx >= ViewLength(d, k) THEN Throw(d)
    ELSE StoreElement(d, k, idx, bits)

\* What subarray(begin, end) of a view of kind k is: the buffer, the kind and
\* the element range, clamped to the view.
NoView == [buf |-> 0, kind |-> "none", begin |-> 0, end |-> 0]

Subarray(c, k, begin, end) ==
    LET len == ViewLength(c, k)
        b == Min(begin, len)
        e == Min(end, len) IN
    [buf |-> c.views[k], kind |-> k, begin |-> b, end |-> Max(b, e)]

\* WasmHeapManager.view<Kind>Array(address, elementCount)
viewArray(c, k, address, elementCount) ==
    LET d == heapView(c)
        startIndex == address \div BytesPerElement(k) IN
    [c |-> d,
     v |-> IF d.err THEN NoView ELSE Subarray(d, k, startIndex, startIndex + elementCount)]

\* view.fill(0) on a subarray
FillZero(c, view) ==
    IF view.begin >= view.end THEN c
    ELSE LET w == BytesPerElement(view.kind) IN
         [c EXCEPT !.bufs[view.buf] =
             [i \in 1..Len(@) |->
                 IF i > view.begin * w /\ i <= view.end * w THEN 0 ELSE @[i]]]

----------------------------------------------------------------------------
(* Heap references.  A reference is [kind, address, count]: its class, its
   address field, and its elementCount (typed arrays), allocatedElementCount
   (strings) or 1 (numeric references).  References of the model sit at
   multiples of 8, as the addresses of an 8-aligned allocator do. *)

NumericRefKinds == {"Int8Ref", "Pointer32Ref", "Pointer53Ref", "Pointer64Ref"}

StringRefKinds ==
    {"NullTerminatedAsciiStringRef", "NullTerminatedUtf8StringRef",
     "NullTerminatedUtf16StringRef", "NullTerminatedUtf32StringRef"}

PointerArrayRefKinds == {"Pointer32ArrayRef", "Pointer53ArrayRef", "Pointer64ArrayRef"}

TypedArrayRefKinds == {"Uint8ArrayRef"} \cup PointerArrayRefKinds

RefKinds == NumericRefKinds \cup StringRefKinds \cup TypedArrayRefKinds

\* The cached view a reference class reads and writes through.
ElementKind(kind) ==
    CASE kind = "Int8Ref" -> "Int8"
      [] kind \in {"Pointer32Ref", "Pointer32ArrayRef"} -> "Uint32"
      [] kind \in {"Pointer53Ref", "Pointer64Ref",
                   "Pointer53ArrayRef", "Pointer64ArrayRef"} -> "BigUint64"
      [] kind \in {"Uint8ArrayRef", "NullTerminatedAsciiStringRef",
                   "NullTerminatedUtf8StringRef"} -> "Uint8"
      [] kind = "NullTerminatedUtf16StringRef" -> "Uint16"
      [] kind = "NullTerminatedUtf32StringRef" -> "Uint32"

\* get bytesPerElement()
bytesPerElement(ref) == BytesPerElement(ElementKind(ref.kind))

\* get allocatedByteCount()
allocatedByteCount(ref) == ref.count * bytesPerElement(ref)

\* A faulty variant: a reference is Freed only once free() has marked it,
\* which is never by its address.
isFreed_marked(ref) == FALSE

\* HeapRef.isFreed
isFreed(ref) == ref.address = 0

\* A faulty variant: the check is missing.
assertNotFreed_missing(c, ref) == c

\* HeapRef.assertNotFreed
assertNotFreed(c, ref) ==
    IF c.err THEN c
    ELSE IF isFreed(ref) THEN Throw(c)
    ELSE c

\* The external deallocate capability: the call is recorded.
deallocate(c, address) ==
    IF c.err THEN c
    ELSE IF address \in c.throwing THEN Throw([c EXCEPT !.dealloc = Append(@, address)])
    ELSE [c EXCEPT !.dealloc = Append(@, address)]

\* A faulty variant: deallocate is not called.
freeAddress_none(c, address) == c

\* WasmHeapManager.free(address: number)
freeAddress(c, address) == deallocate(c, address)

\* A faulty variant: the address is reset before deallocate is called.
freeReference_resetFirst(c, ref) ==
    IF c.err \/ isFreed(ref) THEN [c |-> c, address |-> ref.address]
    ELSE [c |-> deallocate(c, ref.address), address |-> 0]

\* A faulty variant: the address is not reset.
freeReference_noReset(c, ref) ==
    IF c.err \/ isFreed(ref) THEN [c |-> c, address |-> ref.address]
    ELSE [c |-> deallocate(c, ref.address), address |-> ref.address]

\* WasmHeapManager.free(heapReference): the context and the reference's
\* address afterwards.
freeReference(c, ref) ==
    LET d == deallocate(c, ref.address) IN
    IF c.err \/ isFreed(ref) THEN [c |-> c, address |-> ref.address]
    ELSE [c |-> d, address |-> IF d.err THEN ref.address ELSE 0]

\* HeapRef.free(): any argument is ignored.
HeapRef_free(c, ref) == freeReference(c, ref)

\* <Kind>Ref.read() and <Kind>Ref.write() of the numeric reference classes.
NumericRef_read(c, ref) ==
    readElement(assertNotFreed(c, ref), ElementKind(ref.kind), ref.address)

NumericRef_write(c, ref, bits) ==
    writeElement(assertNotFreed(c, ref), ElementKind(ref.kind), ref.address, bits)

NumericRef_readAtomic(c, ref) ==
    readElementAtomic(assertNotFreed(c, ref), ElementKind(ref.kind), ref.address)

NumericRef_writeAtomic(c, ref, bits) ==
    writeElementAtomic(assertNotFreed(c, ref), ElementKind(ref.kind), ref.address, bits)

\* NumericRef.value (get and set): the check, then read() or write().
NumericRef_getValue(c, ref) == NumericRef_read(assertNotFreed(c, ref), ref)

NumericRef_setValue(c, ref, bits) == NumericRef_write(assertNotFreed(c, ref), ref, bits)

\* PointerRef.free(options).  No reference class extends PointerRef.
PointerRef_free(c, ref, freeOptions) ==
    LET r == NumericRef_read(c, ref)
        d == IF freeOptions.freePointedAddress
             THEN freeAddress(r.c, ToNumber(r.v))
             ELSE c IN
    HeapRef_free(d, ref)

\* <Kind>ArrayRef.readAt(index) and the other indexed accessors.
TypedArrayRef_readAt(c, ref, index) ==
    readElement(assertNotFreed(c, ref), ElementKind(ref.kind),
                ref.address + index * bytesPerElement(ref))

TypedArrayRef_writeAt(c, ref, index, bits) ==
    writeElement(assertNotFreed(c, ref), ElementKind(ref.kind),
                 ref.address + index * bytesPerElement(ref), bits)

TypedArrayRef_readAtomicAt(c, ref, index) ==
    readElementAtomic(assertNotFreed(c, ref), ElementKind(ref.kind),
                      ref.address + index * bytesPerElement(ref))

TypedArrayRef_writeAtomicAt(c, ref, index, bits) ==
    writeElementAtomic(assertNotFreed(c, ref), ElementKind(ref.kind),
                       ref.address + index * bytesPerElement(ref), bits)

\* <Kind>ArrayRef.view
TypedArrayRef_view(c, ref) ==
    viewArray(assertNotFreed(c, ref), ElementKind(ref.kind), ref.address, ref.count)

\* The loop of PointerArrayRef.free, from index i on.
RECURSIVE freeElementsFrom(_, _, _)
freeElementsFrom(c, ref, i) ==
    IF c.err \/ i >= ref.count THEN c
    ELSE LET r == TypedArrayRef_readAt(c, ref, i) IN
         freeElementsFrom(freeAddress(r.c, ToNumber(r.v)), ref, i + 1)

\* A faulty variant: the array's own region is freed before its elements.
PointerArrayRef_free_ownFirst(c, ref, freeOptions) ==
    LET own == HeapRef_free(c, ref) IN
    IF freeOptions.freeElements
    THEN [c |-> freeElementsFrom(assertNotFreed(own.c, ref), ref, 0), address |-> own.address]
    ELSE own

\* PointerArrayRef.free(options) and Pointer53ArrayRef.free(options)
PointerArrayRef_free(c, ref, freeOptions) ==
    HeapRef_free(
        IF freeOptions.freeElements
        THEN freeElementsFrom(assertNotFreed(c, ref), ref, 0)
        ELSE c,
        ref)

\* The free method each reference class inherits or defines.
free(c, ref, freeOptions) ==
    IF ref.kind \in PointerArrayRefKinds
    THEN PointerArrayRef_free(c, ref, freeOptions)
    ELSE HeapRef_free(c, ref)

\* HeapRef.allocatedBytesView: no check of the address.
allocatedBytesView(c, ref) ==
    viewArray(c, "Uint8", ref.address, allocatedByteCount(ref))

\* A faulty variant: as many bytes as the reference has elements are zeroed.
clear_elements(c, ref) ==
    LET r == viewArray(assertNotFreed(c, ref), "Uint8", ref.address, ref.count) IN
    IF r.c.err THEN r.c ELSE FillZero(r.c, r.v)

\* HeapRef.clear()
clear(c, ref) ==
    LET r == allocatedBytesView(assertNotFreed(c, ref), ref) IN
    IF r.c.err THEN r.c ELSE FillZero(r.c, r.v)

----------------------------------------------------------------------------
(* Null-terminated strings.  A text is a sequence of character codes below
   128, each of which takes one element in every one of the four encodings. *)

MaxTextLength == 2

Chars == {65}

Texts == UNION {[1..n -> Chars] : n \in 0..MaxTextLength}

\* view[idx] = bits on a view already fetched; ignored beyond the view.
SetElement(c, k, idx, bits) ==
    IF idx < ViewLength(c, k) THEN StoreElement(c, k, idx, bits) ELSE c

\* encode<Encoding>Into(value, region) for the region subarray(begin, end) of
\* the view of kind k: as many characters as fit are stored, one element
\* each; written is the number of elements stored, read the number of
\* characters consumed.
RECURSIVE StoreText(_, _, _, _, _)
StoreText(c, k, begin, value, n) ==
    IF n = 0 THEN c
    ELSE StoreElement(StoreText(c, k, begin, value, n - 1), k, begin + n - 1,
                      ToBits(value[n], BytesPerElement(k)))

encodeInto(c, k, begin, end, value) ==
    LET region == Subarray(c, k, begin, end)
        n == Min(Len(value), region.end - region.begin) IN
    [c |-> StoreText(c, k, region.begin, value, n), written |-> n, read |-> n]

\* decode<Encoding>(region): the character codes of the elements.
decode(c, region) ==
    [j \in 1..(region.end - region.begin) |->
        ToNumber(<<ElementBits(c, region.kind, region.begin + j - 1)>>)]

StringViewKind(width) ==
    CASE width = 1 -> "Uint8" [] width = 2 -> "Uint16" [] width = 4 -> "Uint32"

\* A faulty variant: the scan stops at the first zero byte whatever the
\* width of the elements.
getElementCountOfNullTerminatedString_bytes(c, address, width, maxElementCount) ==
    LET d == heapView(c)
        region == Subarray(d, "Uint8", address,
                           IF maxElementCount = << >> THEN ViewLength(d, "Uint8")
                           ELSE address + maxElementCount[1] * width)
        zeros == {i \in region.begin..(region.end - 1) : IsZero(ElementBits(d, "Uint8", i))} IN
    IF d.err THEN [c |-> d, v |-> 0]
    ELSE IF zeros = {} THEN [c |-> Throw(d), v |-> 0]
    ELSE [c |-> d,
          v |-> ((CHOOSE i \in zeros : \A j \in zeros : i <= j) - region.begin) \div width]

\* WasmHeapManager.getElementCountOfNullTerminatedString(address,
\* bytesPerElement, maxElementCount); maxElementCount is << >> when it is
\* not given.  v is the count found.
getElementCountOfNullTerminatedString(c, address, width, maxElementCount) ==
    LET k == StringViewKind(width)
        d == heapView(c)
        startIndex == address \div width
        region == Subarray(d, k, startIndex,
                           IF maxElementCount = << >> THEN ViewLength(d, k)
                           ELSE startIndex + maxElementCount[1])
        zeros == {i \in region.begin..(region.end - 1) : IsZero(ElementBits(d, k, i))} IN
    IF d.err THEN [c |-> d, v |-> 0]
    ELSE IF zeros = {} THEN [c |-> Throw(d), v |-> 0]
    ELSE [c |-> d, v |-> (CHOOSE i \in zeros : \A j \in zeros : i <= j) - region.begin]

\* WasmHeapManager.readNullTerminated<Encoding>String(address, maxElementCount)
readNullTerminatedString(c, width, address, maxElementCount) ==
    LET k == StringViewKind(width)
        n == getElementCountOfNullTerminatedString(c, address, width, maxElementCount)
        d == heapView(n.c)
        startIndex == address \div width IN
    IF d.err THEN [c |-> d, v |-> << >>]
    ELSE [c |-> d, v |-> decode(d, Subarray(d, k, startIndex, startIndex + n.v))]

\* A faulty variant: no terminator is stored after the text.
writeNullTerminatedAsciiString_unterminated(c, address, value) ==
    LET d == heapView(c) IN
    IF d.err THEN d
    ELSE encodeInto(d, "Uint8", address, address + Len(value), value).c

\* WasmHeapManager.writeNullTerminatedAsciiString(address, value)
writeNullTerminatedAsciiString(c, address, value) ==
    LET d == heapView(c)
        e == encodeInto(d, "Uint8", address, address + Len(value), value) IN
    IF d.err THEN d
    ELSE SetElement(e.c, "Uint8", address + e.written, ToBits(0, 1))

\* WasmHeapManager.writeNullTerminatedUtf8String(address, value, maxElementCount)
writeNullTerminatedUtf8String(c, address, value, maxElementCount) ==
    LET d == heapView(c)
        e == encodeInto(d, "Uint8", address, (address + maxElementCount) - 1, value) IN
    IF d.err THEN d
    ELSE IF e.read < Len(value) THEN Throw(e.c)
    ELSE SetElement(e.c, "Uint8", address + e.written, ToBits(0, 1))

\* WasmHeapManager.writeNullTerminatedUtf16String(address, value,
\* maxElementCount) and writeNullTerminatedUtf32String, of element width
\* 2 and 4; maxElementCount is << >> when it is not given.
writeNullTerminatedWideString(c, width, address, value, maxElementCount) ==
    LET k == StringViewKind(width)
        d == heapView(c)
        stringElementCount == Len(value)
        addressAsIndex == address \div width
        e == encodeInto(d, k, addressAsIndex, addressAsIndex + stringElementCount, value) IN
    IF d.err THEN d
    ELSE IF /\ maxElementCount # << >>
            /\ maxElementCount[1] # 0
            /\ stringElementCount + 1 > maxElementCount[1]
    THEN Throw(d)
    ELSE SetElement(e.c, k, addressAsIndex + e.written, ToBits(0, width))

\* NullTerminated<Encoding>StringRef.read()
StringRef_read(c, ref) ==
    readNullTerminatedString(assertNotFreed(c, ref), bytesPerElement(ref),
                             ref.address, <<ref.count>>)

\* NullTerminated<Encoding>StringRef.write(newValue): only the UTF-8 class
\* passes its allocatedElementCount.
StringRef_write(c, ref, newValue) ==
    LET a == assertNotFreed(c, ref) IN
    CASE ref.kind = "NullTerminatedAsciiStringRef" ->
            writeNullTerminatedAsciiString(a, ref.address, newValue)
      [] ref.kind = "NullTerminatedUtf8StringRef" ->
            writeNullTerminatedUtf8String(a, ref.address, newValue, ref.count)
      [] OTHER ->
            writeNullTerminatedWideString(a, bytesPerElement(ref), ref.address,
                                          newValue, << >>)

\* StringRef.value (get and set)
StringRef_getValue(c, ref) == StringRef_read(assertNotFreed(c, ref), ref)

StringRef_setValue(c, ref, newValue) == StringRef_write(assertNotFreed(c, ref), ref, newValue)

\* NullTerminatedStringRef.encodedElementCount
encodedElementCount(c, ref) ==
    getElementCountOfNullTerminatedString(assertNotFreed(c, ref), ref.address,
                                          bytesPerElement(ref), <<ref.count>>)

\* StringRef.encodedBytesView: the check, the heapUint8 getter, then
\* encodedByteCount for the end of the subarray.
encodedBytesView(c, ref) ==
    LET d == heapView(assertNotFreed(c, ref))
        n == encodedElementCount(d, ref) IN
    [c |-> n.c,
     v |-> IF n.c.err THEN NoView
           ELSE Subarray(d, "Uint8", ref.address,
                         ref.address + n.v * bytesPerElement(ref))]

\* NullTerminated<Encoding>StringRef.allocatedElementsView
allocatedElementsView(c, ref) ==
    IF ref.kind \in {"NullTerminatedAsciiStringRef", "NullTerminatedUtf8StringRef"}
    THEN allocatedBytesView(c, ref)
    ELSE viewArray(assertNotFreed(c, ref), ElementKind(ref.kind), ref.address, ref.count)

\* NullTerminated<Encoding>StringRef.encodedElementsView
encodedElementsView(c, ref) ==
    IF ref.kind = "NullTerminatedAsciiStringRef" THEN encodedBytesView(c, ref)
    ELSE IF ref.kind = "NullTerminatedUtf8StringRef"
    THEN encodedBytesView(assertNotFreed(c, ref), ref)
    ELSE LET k == ElementKind(ref.kind)
             addressAsIndex == ref.address \div bytesPerElement(ref)
             d == heapView(assertNotFreed(c, ref))
             n == encodedElementCount(d, ref) IN
         [c |-> n.c,
          v |-> IF n.c.err THEN NoView
                ELSE Subarray(d, k, addressAsIndex, addressAsIndex + n.v)]

----------------------------------------------------------------------------
(* Allocation *)

\* The FinalizationRegistry as the constructor creates it, without a cell.
\* With it the model keeps which references the program can no longer
\* reach, the cells whose callback has run, and the addresses handed to
\* free(address).
\* No arena allocator has been constructed.
NoArena == [allocator |-> "none"]

NoRegistry == [cells |-> << >>, unreachable |-> {}, finalized |-> << >>, released |-> {}]

\* WasmHeapManager.registerFinalizerIfEnabled(ref), ref being the r-th
\* reference issued: a cell holding the reference's address.
registerFinalizerIfEnabled(reg, r, ref) ==
    IF options.enableGarbageCollection
    THEN [reg EXCEPT !.cells = Append(@, [target |-> r, held |-> ref.address])]
    ELSE reg

\* WasmHeapManager.alloc that leaves the region as the allocator returned
\* it whatever the options say.
alloc_unfilled(c, byteCount, address) == [c EXCEPT !.allocs = @ + 1]

\* WasmHeapManager.alloc(byteCount), where the external allocate
\* returned address.
alloc(c, byteCount, address) ==
    LET a == [c EXCEPT !.allocs = @ + 1]
        r == viewArray(a, "Uint8", address, byteCount) IN
    IF ~options.clearAllocatedRegions THEN a
    ELSE IF r.c.err THEN r.c
    ELSE FillZero(r.c, r.v)

\* The reference alloc<Kind>(), alloc<Kind>Array(elementCount) and
\* allocNullTerminated<Encoding>String(maxElementCount) wrap around the
\* allocated address.
allocatedRef(kind, address, count) ==
    CASE kind \in NumericRefKinds -> [kind |-> kind, address |-> address, count |-> 1]
      [] kind \in TypedArrayRefKinds -> [kind |-> kind, address |-> address, count |-> count]
      [] kind = "NullTerminatedUtf8StringRef" ->
            [kind |-> "NullTerminatedAsciiStringRef", address |-> address,
             count |-> count + 1]
      [] OTHER -> [kind |-> kind, address |-> address, count |-> count + 1]

----------------------------------------------------------------------------
(* The state machine *)

\* Buffer lengths of an embedder whose buffers are multiples of every
\* element size (0: a detached or not yet attached heap).
AlignedLengths == {n \in 0..MaxHeapLength : n % 8 = 0 /\ n # 8}

\* Buffer lengths of any embedder.
AnyLengths == AlignedLengths \cup {9, 10, 12}

\* The addresses references are wrapped at: the first address an 8-aligned
\* allocator hands out.
RefAddresses == {8}

\* The addresses the external allocate returns.
AllocAddresses == {8}

\* The values written to numeric cells.
Values == {16}

\* The address and the value of the manager's writeUint32, and the
\* addresses of its readUint8.
Uint32Addresses == {4}

Uint32Values == {67305985}

Uint8Addresses == {4, 5, 6, 7}

FreeOptions ==
    {[freePointedAddress |-> FALSE, freeElements |-> FALSE],
     [freePointedAddress |-> TRUE, freeElements |-> FALSE],
     [freePointedAddress |-> FALSE, freeElements |-> TRUE]}

NoOptions == [freePointedAddress |-> FALSE, freeElements |-> FALSE]

\* The element counts references are created with.
ElementCounts(kind) == IF kind \in NumericRefKinds THEN {1} ELSE {MaxElementCount}

IsRef(r) == r \in 1..Len(refs)

\* The record of an operation: its name, the reference it was called on (0:
\* none) and that reference's address before the call (for an operation of
\* the manager, the address it was given), the options given to
\* free, whether it threw, what it returned, the calls it made to the
\* external capabilities, its heap accesses, and whether any byte of any
\* buffer changed.
RecordAt(op, r, address, c, freeOptions, value, text, view) ==
    [op |-> op, ref |-> r,
     address |-> address,
     freeOptions |-> freeOptions,
     err |-> c.err,
     value |-> IF c.err THEN << >> ELSE value,
     text |-> IF c.err THEN << >> ELSE text,
     view |-> IF c.err THEN NoView ELSE view,
     dealloc |-> c.dealloc, allocs |-> c.allocs,
     acc |-> c.acc, getterCalls |-> c.getterCalls,
     heapChanged |-> c.bufs # bufs]

Record(op, r, c, freeOptions, value, text, view) ==
    RecordAt(op, r, IF IsRef(r) THEN refs[r].address ELSE 0, c, freeOptions,
             value, text, view)

\* The manager's and the heap's state after an operation that ended in c.
CommitHeap(c) ==
    /\ bufs' = c.bufs
    /\ cachedHeap' = c.cachedHeap
    /\ cachedViews' = c.views
    /\ UNCHANGED <<arena, options, heapLengths, currentHeap, agents>>

\* The same after an operation that registers nothing.
Commit(c) == CommitHeap(c) /\ UNCHANGED registry

Returns(op, r, c, value) ==
    /\ Commit(c)
    /\ last' = Record(op, r, c, NoOptions, value, << >>, NoView)
    /\ UNCHANGED refs

ReturnsText(op, r, c, text) ==
    /\ Commit(c)
    /\ last' = Record(op, r, c, NoOptions, << >>, text, NoView)
    /\ UNCHANGED refs

ReturnsView(op, r, c, view) ==
    /\ Commit(c)
    /\ last' = Record(op, r, c, NoOptions, << >>, << >>, view)
    /\ UNCHANGED refs

\* new WasmHeapManager(heapGetter, allocate, deallocate, options): the
\* constructor calls heapGetter() once and builds the cache from its result,
\* which throws unless all eleven views can be constructed.
ConstructedWith(optionSets, lengths) ==
    /\ options \in optionSets
    /\ heapLengths = lengths
    /\ \E n \in lengths :
          /\ n % 8 = 0
          /\ bufs = <<[i \in 1..n |-> 0]>>
    /\ currentHeap = 1
    /\ cachedHeap = 1
    /\ cachedViews = [k \in ViewKinds |-> 1]
    /\ refs = << >>
    /\ registry = NoRegistry
    /\ arena = NoArena
    /\ last = [op |-> "constructor", ref |-> 0, address |-> 0,
               freeOptions |-> NoOptions, err |-> FALSE,
               value |-> << >>, text |-> << >>, view |-> NoView,
               dealloc |-> << >>, allocs |-> 0, acc |-> << >>,
               getterCalls |-> 1, heapChanged |-> FALSE]

Constructed(lengths) == ConstructedWith(OptionSets, lengths)

Init == Constructed(AlignedLengths) /\ agents = << >>

InitAnyLength == Constructed(AnyLengths) /\ agents = << >>

\* The embedder replaces the heap: heapGetter() returns a new buffer holding
\* the old bytes, and the old buffer is detached (as a grown
\* WebAssembly.Memory does) or left as it is (as ArrayBufferArenaAllocator
\* does).
ReplaceBuffer(n, detach) ==
    /\ Len(bufs) < MaxBuffers
    /\ n \in heapLengths
    /\ LET old == bufs[currentHeap]
           new == [i \in 1..n |-> IF i <= Len(old) THEN old[i] ELSE 0] IN
       bufs' = Append(IF detach THEN [bufs EXCEPT ![currentHeap] = << >>] ELSE bufs, new)
    /\ currentHeap' = Len(bufs) + 1
    /\ last' = Record("replaceBuffer", 0, Ctx, NoOptions, << >>, << >>, NoView)
    /\ UNCHANGED <<arena, options, heapLengths, cachedHeap, cachedViews, refs, agents, registry>>

\* wrap<Kind>(address), wrap<Kind>Array(address, elementCount),
\* wrapNullTerminated<Encoding>String(address, maxElementCount)
Wrap(kind, address, count) ==
    /\ Len(refs) < MaxRefs
    /\ refs' = Append(refs, [kind |-> kind, address |-> address, count |-> count])
    /\ last' = Record("wrap", Len(refs) + 1, Ctx, NoOptions, << >>, << >>, NoView)
    /\ UNCHANGED <<arena, options, heapLengths, bufs, currentHeap, cachedHeap, cachedViews, agents, registry>>

\* alloc<Kind>(), alloc<Kind>Array(elementCount),
\* allocNullTerminated<Encoding>String(maxElementCount); the record keeps
\* the method's class, its argument and the byte count allocate was asked for.
Alloc(kind, address, count) ==
    /\ Len(refs) < MaxRefs
    /\ LET ref == allocatedRef(kind, address, count)
           byteCount == count * BytesPerElement(ElementKind(kind))
                                    + (IF kind \in StringRefKinds
                                       THEN BytesPerElement(ElementKind(kind)) ELSE 0)
           c == alloc(Ctx, byteCount, address) IN
       /\ CommitHeap(c)
       /\ refs' = IF c.err THEN refs ELSE Append(refs, ref)
       /\ registry' = IF c.err THEN registry
                      ELSE registerFinalizerIfEnabled(registry, Len(refs) + 1, ref)
       /\ last' = Record("alloc", IF c.err THEN 0 ELSE Len(refs) + 1, c, NoOptions,
                         << >>, << >>, NoView)
                  @@ [kind |-> kind, count |-> count, requested |-> <<byteCount>>,
                      allocatedAt |-> address]

\* WasmHeapManager.readUint8(address)
ReadUint8(address) ==
    /\ LET x == readElement(Ctx, "Uint8", address) IN
       /\ Commit(x.c)
       /\ last' = RecordAt("readUint8", 0, address, x.c, NoOptions, x.v, << >>, NoView)
    /\ UNCHANGED refs

\* WasmHeapManager.writeUint32(address, value); the record's value is the
\* value given.
WriteUint32(address, v) ==
    /\ LET c == writeElement(Ctx, "Uint32", address, ToBits(v, 4)) IN
       /\ Commit(c)
       /\ last' = RecordAt("writeUint32", 0, address, c, NoOptions, <<ToBits(v, 4)>>,
                           << >>, NoView)
    /\ UNCHANGED refs

Read(r) ==
    /\ IsRef(r)
    /\ IF refs[r].kind \in NumericRefKinds
       THEN LET x == NumericRef_read(Ctx, refs[r]) IN Returns("read", r, x.c, x.v)
       ELSE /\ refs[r].kind \in StringRefKinds
            /\ LET x == StringRef_read(Ctx, refs[r]) IN ReturnsText("read", r, x.c, x.v)

GetValue(r) ==
    /\ IsRef(r)
    /\ IF refs[r].kind \in NumericRefKinds
       THEN LET x == NumericRef_getValue(Ctx, refs[r]) IN Returns("getValue", r, x.c, x.v)
       ELSE /\ refs[r].kind \in StringRefKinds
            /\ LET x == StringRef_getValue(Ctx, refs[r]) IN
               ReturnsText("getValue", r, x.c, x.v)

ReadAtomic(r) ==
    /\ IsRef(r)
    /\ refs[r].kind \in NumericRefKinds
    /\ LET x == NumericRef_readAtomic(Ctx, refs[r]) IN Returns("readAtomic", r, x.c, x.v)

Write(r, v) ==
    /\ IsRef(r)
    /\ refs[r].kind \in NumericRefKinds
    /\ Returns("write", r, NumericRef_write(Ctx, refs[r], ToBits(v, bytesPerElement(refs[r]))),
               << >>)

SetValue(r, v) ==
    /\ IsRef(r)
    /\ refs[r].kind \in NumericRefKinds
    /\ Returns("setValue", r,
               NumericRef_setValue(Ctx, refs[r], ToBits(v, bytesPerElement(refs[r]))), << >>)

WriteAtomic(r, v) ==
    /\ IsRef(r)
    /\ refs[r].kind \in NumericRefKinds
    /\ Returns("writeAtomic", r,
               NumericRef_writeAtomic(Ctx, refs[r], ToBits(v, bytesPerElement(refs[r]))), << >>)

\* The bytes of the cached buffer that an operation ending in c changed.
ChangedBytes(c) ==
    {i \in 1..Len(c.bufs[c.cachedHeap]) :
        c.bufs[c.cachedHeap][i] # bufs[c.cachedHeap][i]}

\* The record of a text write: the text given and the bytes changed as well.
GivenText(op, r, c, t) ==
    /\ Commit(c)
    /\ last' = Record(op, r, c, NoOptions, << >>, << >>, NoView)
                   @@ [given |-> t, changed |-> ChangedBytes(c)]
    /\ UNCHANGED refs

WriteText(r, t) ==
    /\ IsRef(r)
    /\ refs[r].kind \in StringRefKinds
    /\ GivenText("write", r, StringRef_write(Ctx, refs[r], t), t)

SetText(r, t) ==
    /\ IsRef(r)
    /\ refs[r].kind \in StringRefKinds
    /\ GivenText("setValue", r, StringRef_setValue(Ctx, refs[r], t), t)

ReadAt(r, i) ==
    /\ IsRef(r)
    /\ refs[r].kind \in TypedArrayRefKinds
    /\ i < refs[r].count
    /\ LET x == TypedArrayRef_readAt(Ctx, refs[r], i) IN Returns("readAt", r, x.c, x.v)

ReadAtomicAt(r, i) ==
    /\ IsRef(r)
    /\ refs[r].kind \in TypedArrayRefKinds
    /\ i < refs[r].count
    /\ LET x == TypedArrayRef_readAtomicAt(Ctx, refs[r], i) IN
       Returns("readAtomicAt", r, x.c, x.v)

WriteAt(r, i, v) ==
    /\ IsRef(r)
    /\ refs[r].kind \in TypedArrayRefKinds
    /\ i < refs[r].count
    /\ Returns("writeAt", r,
               TypedArrayRef_writeAt(Ctx, refs[r], i, ToBits(v, bytesPerElement(refs[r]))),
               << >>)

WriteAtomicAt(r, i, v) ==
    /\ IsRef(r)
    /\ refs[r].kind \in TypedArrayRefKinds
    /\ i < refs[r].count
    /\ Returns("writeAtomicAt", r,
               TypedArrayRef_writeAtomicAt(Ctx, refs[r], i,
                                           ToBits(v, bytesPerElement(refs[r]))),
               << >>)

View(r) ==
    /\ IsRef(r)
    /\ refs[r].kind \in TypedArrayRefKinds
    /\ LET x == TypedArrayRef_view(Ctx, refs[r]) IN ReturnsView("view", r, x.c, x.v)

Clear(r) ==
    /\ IsRef(r)
    /\ Returns("clear", r, clear(Ctx, refs[r]), << >>)

Free(r, freeOptions) ==
    /\ IsRef(r)
    /\ LET x == free(Ctx, refs[r], freeOptions) IN
       /\ Commit(x.c)
       /\ refs' = [refs EXCEPT ![r].address = x.address]
       /\ last' = Record("free", r, x.c, freeOptions, << >>, << >>, NoView)

AllocatedBytesView(r) ==
    /\ IsRef(r)
    /\ LET x == allocatedBytesView(Ctx, refs[r]) IN
       ReturnsView("allocatedBytesView", r, x.c, x.v)

AllocatedElementsView(r) ==
    /\ IsRef(r)
    /\ refs[r].kind \in StringRefKinds
    /\ LET x == allocatedElementsView(Ctx, refs[r]) IN
       ReturnsView("allocatedElementsView", r, x.c, x.v)

EncodedElementsView(r) ==
    /\ IsRef(r)
    /\ refs[r].kind \in StringRefKinds
    /\ LET x == encodedElementsView(Ctx, refs[r]) IN
       ReturnsView("encodedElementsView", r, x.c, x.v)

EncodedBytesView(r) ==
    /\ IsRef(r)
    /\ refs[r].kind \in StringRefKinds
    /\ LET x == encodedBytesView(Ctx, refs[r]) IN
       ReturnsView("encodedBytesView", r, x.c, x.v)

Next ==
    \/ \E n \in 0..MaxHeapLength, detach \in BOOLEAN : ReplaceBuffer(n, detach)
    \/ \E kind \in RefKinds, address \in RefAddresses, count \in 1..MaxElementCount :
          count \in ElementCounts(kind) /\ Wrap(kind, address, count)
    \/ \E kind \in RefKinds, address \in AllocAddresses, count \in 1..MaxElementCount :
          count \in ElementCounts(kind) /\ Alloc(kind, address, count)
    \/ \E r \in 1..MaxRefs : Read(r)
    \/ \E r \in 1..MaxRefs : GetValue(r)
    \/ \E r \in 1..MaxRefs : ReadAtomic(r)
    \/ \E r \in 1..MaxRefs, v \in Values : Write(r, v)
    \/ \E r \in 1..MaxRefs, v \in Values : SetValue(r, v)
    \/ \E r \in 1..MaxRefs, v \in Values : WriteAtomic(r, v)
    \/ \E r \in 1..MaxRefs, t \in Texts : WriteText(r, t)
    \/ \E r \in 1..MaxRefs, t \in Texts : SetText(r, t)
    \/ \E r \in 1..MaxRefs, i \in 0..(MaxElementCount - 1) : ReadAt(r, i)
    \/ \E r \in 1..MaxRefs, i \in 0..(MaxElementCount - 1) : ReadAtomicAt(r, i)
    \/ \E r \in 1..MaxRefs, i \in 0..(MaxElementCount - 1), v \in Values : WriteAt(r, i, v)
    \/ \E r \in 1..MaxRefs, i \in 0..(MaxElementCount - 1), v \in Values :
          WriteAtomicAt(r, i, v)
    \/ \E r \in 1..MaxRefs : View(r)
    \/ \E r \in 1..MaxRefs : Clear(r)
    \/ \E r \in 1..MaxRefs, freeOptions \in FreeOptions : Free(r, freeOptions)
    \/ \E r \in 1..MaxRefs : AllocatedBytesView(r)
    \/ \E r \in 1..MaxRefs : AllocatedElementsView(r)
    \/ \E r \in 1..MaxRefs : EncodedElementsView(r)
    \/ \E r \in 1..MaxRefs : EncodedBytesView(r)

\* The manager's own read and write methods on a heap the embedder replaces.
ManagerNext ==
    \/ \E n \in 0..MaxHeapLength, detach \in BOOLEAN : ReplaceBuffer(n, detach)
    \/ \E address \in Uint8Addresses : ReadUint8(address)
    \/ \E address \in Uint32Addresses, v \in Uint32Values : WriteUint32(address, v)

\* References over the heap of an embedder whose buffers are multiples of 8.
Spec == Init /\ [][Next]_vars

\* The manager's own methods over such a heap.
SpecManager == Init /\ [][ManagerNext]_vars

\* The manager's own methods over a heap whose buffers have any length.
SpecAnyLength == InitAnyLength /\ [][ManagerNext]_vars

----------------------------------------------------------------------------
(* Numeric cells *)

\* A JavaScript integer (a Number or a BigInt): its sign and the eight
\* little-endian bytes of its magnitude.
Num(neg, mag) == [neg |-> neg, mag |-> mag]

\* The integer n, |n| < 2^31.
Small(n) == Num(n < 0, ToBits(IF n < 0 THEN 0 - n ELSE n, 8))

RECURSIVE Increment(_)
Increment(bits) ==
    IF bits = << >> THEN << >>
    ELSE IF Head(bits) < 255 THEN <<Head(bits) + 1>> \o Tail(bits)
    ELSE <<0>> \o Increment(Tail(bits))

\* The two's complement of a cell.
Negate(bits) == Increment([i \in 1..Len(bits) |-> 255 - bits[i]])

\* ToInt8 .. ToBigUint64 of the typed array element store: the value modulo
\* 2^(8w), as the w bytes of the cell.
ToIntN(v, w) ==
    LET low == [i \in 1..w |-> v.mag[i]] IN
    IF v.neg THEN Negate(low) ELSE low

\* ToUint8Clamp of the Uint8ClampedArray element store.
ToUint8Clamp(v) ==
    IF v.neg THEN <<0>>
    ELSE IF \E i \in 2..8 : v.mag[i] # 0 THEN <<255>>
    ELSE <<v.mag[1]>>

SignedViews == {"Int8", "Int16", "Int32", "BigInt64"}

\* A faulty variant: every cell is loaded as unsigned.
FromBits_unsigned(k, bits) ==
    Num(FALSE, [i \in 1..8 |-> IF i <= Len(bits) THEN bits[i] ELSE 0])

\* The value a typed array element load yields for the bytes of a cell.
FromBits(k, bits) ==
    LET w == Len(bits)
        wide(b) == [i \in 1..8 |-> IF i <= w THEN b[i] ELSE 0] IN
    IF k \in SignedViews /\ bits[w] >= 128
    THEN Num(TRUE, wide(Negate(bits)))
    ELSE Num(FALSE, wide(bits))

\* The numeric cell kinds of the manager and the view each one's methods use.
NumericKinds ==
    {"Int8", "Uint8", "Uint8Clamped", "Int16", "Uint16", "Int32", "Uint32",
     "BigInt64", "BigUint64", "Pointer32", "Pointer64"}

CellView(K) ==
    CASE K = "Pointer32" -> "Uint32"
      [] K = "Pointer53" -> "BigUint64"
      [] K = "Pointer64" -> "BigUint64"
      [] OTHER -> K

\* Bit j of a magnitude, and the position of its highest set bit.
Bit(mag, j) == IF j > 63 THEN 0 ELSE (mag[(j \div 8) + 1] \div (2 ^ (j % 8))) % 2

TopBit(mag) == CHOOSE p \in 0..63 : Bit(mag, p) = 1 /\ \A q \in (p + 1)..63 : Bit(mag, q) = 0

\* Number(b) of a BigInt b >= 0: b itself when it has at most 53 significant
\* bits, else b rounded to 53 significant bits, ties to even; the result
\* 2^64 takes a ninth byte.
Number(v) ==
    IF IsZero(v.mag) \/ TopBit(v.mag) <= 52 THEN v
    ELSE LET d == TopBit(v.mag) - 52
             kept(j) == IF j < d THEN 0 ELSE Bit(v.mag, j)
             up == /\ Bit(v.mag, d - 1) = 1
                   /\ \/ Bit(v.mag, d) = 1
                      \/ \E q \in 0..(d - 2) : Bit(v.mag, q) = 1
             carry(j) == up /\ j >= d /\ \A q \in d..(j - 1) : kept(q) = 1
             bit(j) == IF carry(j) THEN 1 - kept(j) ELSE kept(j)
             byte(i) == bit(8 * i - 8) + 2 * bit(8 * i - 7) + 4 * bit(8 * i - 6)
                        + 8 * bit(8 * i - 5) + 16 * bit(8 * i - 4) + 32 * bit(8 * i - 3)
                        + 64 * bit(8 * i - 2) + 128 * bit(8 * i - 1) IN
         Num(v.neg, [i \in 1..(IF byte(9) = 0 THEN 8 ELSE 9) |-> byte(i)])

\* A faulty variant: the cell is taken for 32 bits wide.
LoadedValue_narrow(K, k, bits) == FromBits("Uint32", SubSeq(bits, 1, Min(4, Len(bits))))

\* What read<K> and read<K>Atomic return for the bytes of the cell loaded
\* from the view of kind k: readPointer53 converts the BigInt to a Number.
LoadedValue(K, k, bits) ==
    IF K = "Pointer53" THEN Number(FromBits(k, bits)) ELSE FromBits(k, bits)

\* WasmHeapManager.read<K>(address)
readNumeric(c, K, address) ==
    LET x == readElement(c, CellView(K), address) IN
    [c |-> x.c,
     v |-> IF x.v = << >> THEN << >> ELSE <<LoadedValue(K, CellView(K), x.v[1])>>]

\* WasmHeapManager.read<K>Atomic(address); readUint8ClampedAtomic is
\* readUint8Atomic.
readNumericAtomic(c, K, address) ==
    LET k == IF K = "Uint8Clamped" THEN "Uint8" ELSE CellView(K)
        x == readElementAtomic(c, k, address) IN
    [c |-> x.c, v |-> IF x.v = << >> THEN << >> ELSE <<LoadedValue(K, k, x.v[1])>>]

\* WasmHeapManager.write<K>(address, value)
writeNumeric(c, K, address, v) ==
    IF K = "Uint8Clamped"
    THEN writeElement(c, "Uint8Clamped", address, ToUint8Clamp(v))
    ELSE writeElement(c, CellView(K), address, ToIntN(v, BytesPerElement(CellView(K))))

\* A faulty variant: the atomic store of a saturating cell wraps around.
writeNumericAtomic_unclamped(c, K, address, v) ==
    LET k == IF K = "Uint8Clamped" THEN "Uint8" ELSE CellView(K) IN
    writeElementAtomic(c, k, address, ToIntN(v, BytesPerElement(k)))

\* WasmHeapManager.write<K>Atomic(address, value); writeUint8ClampedAtomic
\* clamps the value and calls writeUint8Atomic.
writeNumericAtomic(c, K, address, v) ==
    IF K = "Uint8Clamped"
    THEN LET clamped == IF v.neg /\ ~IsZero(v.mag) THEN Small(0)
                        ELSE IF ~v.neg /\ (\E i \in 2..8 : v.mag[i] # 0) THEN Small(255)
                        ELSE v IN
         writeElementAtomic(c, "Uint8", address, ToIntN(clamped, 1))
    ELSE writeElementAtomic(c, CellView(K), address,
                            ToIntN(v, BytesPerElement(CellView(K))))

\* The least and the greatest value of a kind of w bytes.
Pad(bytes) == [i \in 1..8 |-> IF i <= Len(bytes) THEN bytes[i] ELSE 0]

MinValue(k) ==
    LET w == BytesPerElement(k) IN
    IF k \in SignedViews
    THEN Num(TRUE, Pad([i \in 1..w |-> IF i = w THEN 128 ELSE 0]))
    ELSE Small(0)

MaxValue(k) ==
    LET w == BytesPerElement(k) IN
    Num(FALSE, Pad([i \in 1..w |-> IF i = w /\ k \in SignedViews THEN 127 ELSE 255]))

\* The values the model writes to a cell of kind K: the bounds of the kind,
\* 1 and -1 or 16 and, for a saturating cell, integers outside [0, 255].
NumericValues(K) ==
    {MinValue(CellView(K)), MaxValue(CellView(K)), Small(1)}
        \cup (IF CellView(K) \in SignedViews THEN {Small(-1)} ELSE {Small(16)})
        \cup (IF K = "Uint8Clamped" THEN {Small(-1), Small(256), Small(300)} ELSE {})

\* The addresses of the numeric cells: a multiple of every width, and a
\* multiple of 4 only.
NumericAddresses == {8, 12}

NumericLengths == {16}

NumericOps == {"write", "writeAtomic", "read", "readAtomic"}

\* The number of writes so far.
Writes == IF last.op \in NumericOps THEN last.writes ELSE 0

\* What a later read is compared with: the operation before it.
Previous ==
    IF last.op \in NumericOps
    THEN [op |-> last.op, kind |-> last.kind, address |-> last.address,
          given |-> last.given, err |-> last.err]
    ELSE [op |-> "none"]

NumericRecord(op, K, address, c, given, returned) ==
    [op |-> op, kind |-> K, address |-> address, given |-> given,
     returned |-> IF c.err THEN << >> ELSE returned, err |-> c.err,
     before |-> bufs, prev |-> Previous,
     writes |-> Writes + (IF op \in {"write", "writeAtomic"} THEN 1 ELSE 0)]

InitNumeric ==
    /\ Constructed(NumericLengths)
    /\ options = defaultWasmHeapManagerOptions
    /\ agents = << >>

\* manager.write<K>(address, v)
WriteNumeric(K, address, v) ==
    /\ Writes < MaxWrites
    /\ LET c == writeNumeric(Ctx, K, address, v) IN
       /\ Commit(c)
       /\ last' = NumericRecord("write", K, address, c, <<v>>, << >>)
    /\ UNCHANGED refs

\* manager.write<K>Atomic(address, v)
WriteNumericAtomic(K, address, v) ==
    /\ Writes < MaxWrites
    /\ LET c == writeNumericAtomic(Ctx, K, address, v) IN
       /\ Commit(c)
       /\ last' = NumericRecord("writeAtomic", K, address, c, <<v>>, << >>)
    /\ UNCHANGED refs

\* manager.read<K>(address), of the cell just written
ReadNumeric(K, address) ==
    /\ last.op \in {"write", "writeAtomic"}
    /\ last.kind = K
    /\ last.address = address
    /\ LET x == readNumeric(Ctx, K, address) IN
       /\ Commit(x.c)
       /\ last' = NumericRecord("read", K, address, x.c, << >>, x.v)
    /\ UNCHANGED refs

\* manager.read<K>Atomic(address), of the cell just written
ReadNumericAtomic(K, address) ==
    /\ last.op \in {"write", "writeAtomic"}
    /\ last.kind = K
    /\ last.address = address
    /\ LET x == readNumericAtomic(Ctx, K, address) IN
       /\ Commit(x.c)
       /\ last' = NumericRecord("readAtomic", K, address, x.c, << >>, x.v)
    /\ UNCHANGED refs

NumericNext ==
    \/ \E K \in NumericKinds, address \in NumericAddresses :
          \E v \in NumericValues(K) : WriteNumeric(K, address, v)
    \/ \E K \in NumericKinds, address \in NumericAddresses :
          \E v \in NumericValues(K) : WriteNumericAtomic(K, address, v)
    \/ \E K \in NumericKinds, address \in NumericAddresses : ReadNumeric(K, address)
    \/ \E K \in NumericKinds, address \in NumericAddresses : ReadNumericAtomic(K, address)

\* The manager's numeric cells over one buffer.
SpecNumeric == InitNumeric /\ [][NumericNext]_vars

----------------------------------------------------------------------------
(* Atomic float cells shared by several agents *)

\* The float64 values of the model and the little-endian bytes of their
\* IEEE 754 bit patterns: 0 is 0x0000000000000000, 0.1 is
\* 0x3FB999999999999A, -2.5 is 0xC004000000000000 and 1.5 is
\* 0x3FF8000000000000.  Any other pattern is the float "other".
Float64Bits ==
    [f \in {"0", "0.1", "-2.5", "1.5"} |->
        CASE f = "0" -> <<0, 0, 0, 0, 0, 0, 0, 0>>
          [] f = "0.1" -> <<154, 153, 153, 153, 153, 153, 185, 63>>
          [] f = "-2.5" -> <<0, 0, 0, 0, 0, 0, 4, 192>>
          [] f = "1.5" -> <<0, 0, 0, 0, 0, 0, 248, 63>>]

Floats == {"0.1", "-2.5", "1.5"}

\* IEEE754Converter.float64ToBigUint64: the float is stored in float64View
\* and its bytes are read through bigUint64View.
float64ToBigUint64(value) == Float64Bits[value]

\* IEEE754Converter.bigUint64ToFloat64
bigUint64ToFloat64(bits) ==
    IF \E f \in DOMAIN Float64Bits : Float64Bits[f] = bits
    THEN CHOOSE f \in DOMAIN Float64Bits : Float64Bits[f] = bits
    ELSE "other"

\* A faulty variant: the 64 bits are stored as two 32-bit halves.
writeFloat64AtomicStores_halves(address, bits) ==
    <<[k |-> "Uint32", address |-> address, bits |-> SubSeq(bits, 1, 4)],
      [k |-> "Uint32", address |-> address + 4, bits |-> SubSeq(bits, 5, 8)]>>

\* The atomic stores writeFloat64Atomic makes for the converted value: one
\* call of writeBigUint64Atomic, which is one Atomics.store.
writeFloat64AtomicStores(address, bits) ==
    <<[k |-> "BigUint64", address |-> address, bits |-> bits]>>

\* Two writing agents and a reading one, each with its own manager and
\* converter over the one shared buffer.
Writers == {1, 2}
Reader == Cardinality(Writers) + 1

FloatAddresses == {8}

SharedLengths == {16}

IdleAgent ==
    [pc |-> "idle", address |-> 0, value |-> "none", bits |-> << >>,
     pending |-> << >>, calls |-> 0]

InitAgents ==
    /\ Constructed(SharedLengths)
    /\ agents = [a \in Writers \cup {Reader} |-> IdleAgent]

\* writeFloat64Atomic(address, value), up to the atomic store: the
\* conversion, which touches the agent's own converter only.
WriteFloat64Atomic_convert(a, address, value) ==
    /\ a \in Writers
    /\ agents[a].pc = "idle"
    /\ \A w \in Writers : agents[w].value # value
    /\ \A w \in Writers : agents[w].pc # "idle" => agents[w].address = address
    /\ LET bits == float64ToBigUint64(value) IN
       agents' = [agents EXCEPT ![a] =
                     [pc |-> "store", address |-> address, value |-> value,
                      bits |-> bits,
                      pending |-> writeFloat64AtomicStores(address, bits),
                      calls |-> 0]]
    /\ last' = [op |-> "agent", agent |-> a, err |-> FALSE]
    /\ UNCHANGED <<arena, options, heapLengths, bufs, currentHeap, cachedHeap, cachedViews, refs,
                 registry>>

\* writeBigUint64Atomic(address, bits): Atomics.store, one event on the
\* shared buffer.
WriteFloat64Atomic_store(a) ==
    /\ a \in Writers
    /\ agents[a].pc = "store"
    /\ LET s == Head(agents[a].pending)
           c == writeElementAtomic(Ctx, s.k, s.address, s.bits) IN
       /\ bufs' = c.bufs
       /\ cachedHeap' = c.cachedHeap
       /\ cachedViews' = c.views
       /\ agents' = [agents EXCEPT ![a].pending = Tail(@),
                                   ![a].calls = @ + 1,
                                   ![a].pc = IF Len(agents[a].pending) = 1
                                             THEN "done" ELSE "store"]
       /\ last' = [op |-> "agent", agent |-> a, err |-> c.err]
    /\ UNCHANGED <<arena, options, heapLengths, currentHeap, refs, registry>>

\* readFloat64Atomic(address), its atomic load: readBigUint64Atomic, after
\* both writes.
ReadFloat64Atomic_load(address) ==
    /\ agents[Reader].pc = "idle"
    /\ \A w \in Writers : agents[w].pc = "done" /\ agents[w].address = address
    /\ LET x == readElementAtomic(Ctx, "BigUint64", address) IN
       /\ bufs' = x.c.bufs
       /\ cachedHeap' = x.c.cachedHeap
       /\ cachedViews' = x.c.views
       /\ agents' = [agents EXCEPT ![Reader] =
                        [pc |-> "convert", address |-> address, value |-> "none",
                         bits |-> x.v[1], pending |-> << >>, calls |-> 1]]
       /\ last' = [op |-> "agent", agent |-> Reader, err |-> x.c.err]
    /\ UNCHANGED <<arena, options, heapLengths, currentHeap, refs, registry>>

\* readFloat64Atomic(address), the conversion of the loaded bits.
ReadFloat64Atomic_convert ==
    /\ agents[Reader].pc = "convert"
    /\ agents' = [agents EXCEPT ![Reader].pc = "done",
                                ![Reader].value = bigUint64ToFloat64(agents[Reader].bits)]
    /\ last' = [op |-> "agent", agent |-> Reader, err |-> FALSE]
    /\ UNCHANGED <<arena, options, heapLengths, bufs, currentHeap, cachedHeap, cachedViews, refs,
                 registry>>

AgentsNext ==
    \/ \E a \in Writers, address \in FloatAddresses, value \in Floats :
          WriteFloat64Atomic_convert(a, address, value)
    \/ \E a \in Writers : WriteFloat64Atomic_store(a)
    \/ \E address \in FloatAddresses : ReadFloat64Atomic_load(address)
    \/ ReadFloat64Atomic_convert

\* Agents interleaving atomic float accesses on one shared buffer.
SpecAgents == InitAgents /\ [][AgentsNext]_vars

----------------------------------------------------------------------------
(* Strings that are on the heap already *)

StringEncodings == {"Ascii", "Utf8", "Utf16", "Utf32"}

StringRefKindOf(encoding) == "NullTerminated" \o encoding \o "StringRef"

EncodingWidth(encoding) ==
    CASE encoding \in {"Ascii", "Utf8"} -> 1
      [] encoding = "Utf16" -> 2
      [] encoding = "Utf32" -> 4

\* manager.writeNullTerminated<Encoding>String(address, value), with room
\* for the terminator where a maximum is required: how a text comes to be
\* on the heap.
WriteNullTerminatedString(encoding, address, t) ==
    /\ LET c == CASE encoding = "Ascii" -> writeNullTerminatedAsciiString(Ctx, address, t)
                  [] encoding = "Utf8" ->
                        writeNullTerminatedUtf8String(Ctx, address, t, Len(t) + 1)
                  [] OTHER ->
                        writeNullTerminatedWideString(Ctx, EncodingWidth(encoding),
                                                      address, t, << >>) IN
       /\ Commit(c)
       /\ last' = RecordAt("writeNullTerminatedString", 0, address, c, NoOptions,
                           << >>, << >>, NoView)
    /\ UNCHANGED refs

\* wrapNullTerminated<Encoding>String(address) without maxElementCount:
\* the reference's allocatedElementCount is the element count found by the
\* scan from address.
WrapNullTerminatedString(encoding, address) ==
    /\ Len(refs) < MaxRefs
    /\ LET n == getElementCountOfNullTerminatedString(Ctx, address,
                                                      EncodingWidth(encoding), << >>) IN
       /\ Commit(n.c)
       /\ refs' = IF n.c.err THEN refs
                  ELSE Append(refs, [kind |-> StringRefKindOf(encoding),
                                     address |-> address, count |-> n.v])
       /\ last' = RecordAt("wrapNullTerminatedString",
                           IF n.c.err THEN 0 ELSE Len(refs) + 1, address, n.c,
                           NoOptions, << >>, << >>, NoView)

\* ref.encodedElementCount
EncodedElementCount(r) ==
    /\ IsRef(r)
    /\ refs[r].kind \in StringRefKinds
    /\ LET n == encodedElementCount(Ctx, refs[r]) IN
       Returns("encodedElementCount", r, n.c, <<n.v>>)

WrapNext ==
    \/ \E encoding \in StringEncodings, address \in RefAddresses, t \in Texts :
          WriteNullTerminatedString(encoding, address, t)
    \/ \E encoding \in StringEncodings, address \in RefAddresses :
          WrapNullTerminatedString(encoding, address)
    \/ \E r \in 1..MaxRefs : Read(r)
    \/ \E r \in 1..MaxRefs : EncodedElementCount(r)

\* References wrapped around texts that the heap holds.
SpecWrap == Init /\ [][WrapNext]_vars

----------------------------------------------------------------------------
(* Allocation by an allocator that may replace the heap *)

\* The options with either setting of clearAllocatedRegions.
ClearingOptionSets ==
    [clearAllocatedRegions : BOOLEAN, pollingMode : PollingModes,
     enableGarbageCollection : {FALSE}]

InitClearing == ConstructedWith(ClearingOptionSets, AlignedLengths) /\ agents = << >>

\* The addresses the allocator returns and the byte counts asked for.
ClearedAddresses == {4, 6}

ClearedCounts == {2, 4}

\* A faulty variant: the new buffer does not receive the old bytes.
allocate_uncopied(c, n, detach) ==
    IF n = 0 THEN c
    ELSE [c EXCEPT !.bufs = Append(IF detach THEN [c.bufs EXCEPT ![c.heap] = << >>]
                                   ELSE c.bufs, [i \in 1..n |-> 0]),
                   !.heap = Len(c.bufs) + 1]

\* The external allocate callback while it runs: it leaves the heap as it is
\* (n = 0) or replaces it by a buffer of n bytes holding the old bytes, as
\* ArrayBufferArenaAllocator.allocate does without detaching the old buffer
\* and as a growing WebAssembly.Memory does detaching it.
allocate(c, n, detach) ==
    IF n = 0 THEN c
    ELSE LET old == c.bufs[c.heap]
             new == [i \in 1..n |-> IF i <= Len(old) THEN old[i] ELSE 0] IN
         [c EXCEPT !.bufs = Append(IF detach THEN [c.bufs EXCEPT ![c.heap] = << >>]
                                   ELSE c.bufs, new),
                   !.heap = Len(c.bufs) + 1]

\* WasmHeapManager.allocUint8Array(elementCount) with an allocate callback
\* that returns address; the caller drops the reference, and nothing is
\* registered as enableGarbageCollection is off in these options.  The
\* record keeps the heap as the allocator left it.
AllocUint8Array(address, elementCount, n, detach) ==
    /\ n # 0 => /\ Len(bufs) < MaxBuffers
                /\ n \in heapLengths
                /\ n > Len(bufs[currentHeap])
    /\ LET g == allocate(Ctx, n, detach)
           c == alloc(g, elementCount, address) IN
       /\ bufs' = c.bufs
       /\ cachedHeap' = c.cachedHeap
       /\ cachedViews' = c.views
       /\ currentHeap' = c.heap
       /\ last' = RecordAt("allocUint8Array", 0, address, c, NoOptions, << >>, << >>,
                           NoView)
                  @@ [byteCount |-> elementCount, grown |-> n # 0,
                      detached |-> n # 0 /\ detach, before |-> g.bufs[g.heap]]
    /\ UNCHANGED <<arena, options, heapLengths, refs, agents, registry>>

ClearingNext ==
    \/ \E n \in 0..MaxHeapLength, detach \in BOOLEAN : ReplaceBuffer(n, detach)
    \/ \E address \in Uint8Addresses : ReadUint8(address)
    \/ \E address \in Uint32Addresses, v \in Uint32Values : WriteUint32(address, v)
    \/ \E address \in ClearedAddresses, elementCount \in ClearedCounts,
          n \in 0..MaxHeapLength, detach \in BOOLEAN :
          AllocUint8Array(address, elementCount, n, detach)

\* Allocations, with and without zero fill, on a heap the embedder and the
\* allocator replace.
SpecClearing == InitClearing /\ [][ClearingNext]_vars

----------------------------------------------------------------------------
(* Raw frees and automatic reclamation *)

\* The options with either setting of enableGarbageCollection.
ReclaimOptionSets ==
    [clearAllocatedRegions : {TRUE}, pollingMode : PollingModes,
     enableGarbageCollection : BOOLEAN]

InitReclaim == ConstructedWith(ReclaimOptionSets, AlignedLengths) /\ agents = << >>

\* The addresses handed to free(address).
FreedAddresses == {8, 16}

\* view.set(elements) on a subarray: a RangeError when the elements do not
\* fit.
RECURSIVE StoreElements(_, _, _, _)
StoreElements(c, view, elements, n) ==
    IF n = 0 THEN c
    ELSE StoreElement(StoreElements(c, view, elements, n - 1), view.kind,
                      view.begin + n - 1, elements[n])

SetElements(c, view, elements) ==
    IF c.err THEN c
    ELSE IF Len(elements) > view.end - view.begin THEN Throw(c)
    ELSE StoreElements(c, view, elements, Len(elements))

\* A faulty variant: the error of the allocator is swallowed.
allocateOutcome_swallowed(c, threw) == c

\* The context after this.allocate(byteCount) in alloc: the external
\* allocate returned an address, or threw.
allocateOutcome(c, threw) == IF threw THEN Throw(c) ELSE c

\* What an alloc method leaves behind: the heap and the cache of c, the
\* reference when one was created, and the registry reg.  A reference
\* created by a call that threw is out of the program's reach at once.  threw
\* tells whether the external allocate threw; the record keeps the address
\* it returned.
Allocated(op, threw, c, created, ref, reg, given) ==
    /\ CommitHeap(c)
    /\ refs' = IF created THEN Append(refs, ref) ELSE refs
    /\ registry' = IF created /\ c.err
                   THEN [reg EXCEPT !.unreachable = @ \cup {Len(refs) + 1}]
                   ELSE reg
    /\ last' = Record(op, IF created /\ ~c.err THEN Len(refs) + 1 ELSE 0, c, NoOptions,
                      << >>, << >>, NoView)
               @@ [given |-> given, threw |-> threw, refsBefore |-> refs,
                   registryBefore |-> registry, allocatedAt |-> ref.address]

\* alloc<Kind>(initialValue), after the external allocate
\* returned address or threw
AllocInitialAfter(threw, kind, address, v) ==
    /\ Len(refs) < MaxRefs
    /\ LET ref == allocatedRef(kind, address, 1)
           a == alloc(allocateOutcome(Ctx, threw), BytesPerElement(ElementKind(kind)), address)
           c == NumericRef_write(a, ref, ToBits(v, bytesPerElement(ref))) IN
       Allocated("allocInitial", threw, c, ~a.err, ref,
                 IF c.err THEN registry
                 ELSE registerFinalizerIfEnabled(registry, Len(refs) + 1, ref), <<v>>)

\* alloc<Kind>Array(elements): alloc<Kind>Array(elements.length), which
\* registers the reference, then ref.view.set(elements), then the
\* registration every call of alloc<Kind>Array ends with.
AllocElementsAfter(threw, kind, address, elements) ==
    /\ Len(refs) < MaxRefs
    /\ LET ref == allocatedRef(kind, address, Len(elements))
           a == alloc(allocateOutcome(Ctx, threw), Len(elements) * BytesPerElement(ElementKind(kind)), address)
           inner == IF a.err THEN registry
                    ELSE registerFinalizerIfEnabled(registry, Len(refs) + 1, ref)
           x == TypedArrayRef_view(a, ref)
           c == SetElements(x.c, x.v, elements) IN
       Allocated("allocElements", threw, c, ~a.err, ref,
                 IF c.err THEN inner
                 ELSE registerFinalizerIfEnabled(inner, Len(refs) + 1, ref), elements)

\* allocNullTerminated<Encoding>String(value)
AllocTextAfter(threw, kind, address, value) ==
    /\ Len(refs) < MaxRefs
    /\ LET w == BytesPerElement(ElementKind(kind))
           ref == [kind |-> kind, address |-> address, count |-> Len(value) + 1]
           a == alloc(allocateOutcome(Ctx, threw), (Len(value) + 1) * w, address)
           x == allocatedElementsView(a, ref)
           c == IF kind = "NullTerminatedUtf8StringRef"
                THEN LET s == SetElements(x.c, x.v, [i \in 1..Len(value) |-> ToBits(value[i], 1)]) IN
                     IF s.err THEN s
                     ELSE IF Len(value) < x.v.end - x.v.begin
                     THEN StoreElement(s, "Uint8", x.v.begin + Len(value), ToBits(0, 1))
                     ELSE s
                ELSE StringRef_write(a, ref, value) IN
       Allocated("allocText", threw, c, ~a.err, ref,
                 IF c.err THEN registry
                 ELSE registerFinalizerIfEnabled(registry, Len(refs) + 1, ref), value)

\* The same methods with an allocate callback that returns address and
\* leaves the heap as it is.
AllocInitial(kind, address, v) == AllocInitialAfter(FALSE, kind, address, v)

AllocElements(kind, address, elements) == AllocElementsAfter(FALSE, kind, address, elements)

AllocText(kind, address, value) == AllocTextAfter(FALSE, kind, address, value)

\* WasmHeapManager.free(address)
FreeAddress(address) ==
    /\ LET c == freeAddress(Ctx, address) IN
       /\ CommitHeap(c)
       /\ last' = RecordAt("freeAddress", 0, address, c, NoOptions, << >>, << >>, NoView)
                  @@ [refsBefore |-> refs]
    /\ registry' = [registry EXCEPT !.released = @ \cup {address}]
    /\ UNCHANGED refs

\* The program drops its last reference to the r-th HeapRef.
Drop(r) ==
    /\ IsRef(r)
    /\ r \notin registry.unreachable
    /\ registry' = [registry EXCEPT !.unreachable = @ \cup {r}]
    /\ last' = Record("drop", r, Ctx, NoOptions, << >>, << >>, NoView)
    /\ UNCHANGED <<arena, options, heapLengths, bufs, currentHeap, cachedHeap, cachedViews, refs,
                   agents>>

\* The callback given to the FinalizationRegistry, run by the collector for
\* the i-th cell once the cell's target is unreachable: deallocate(held).
Finalize(i) ==
    /\ i \in 1..Len(registry.cells)
    /\ registry.cells[i].target \in registry.unreachable
    /\ LET cell == registry.cells[i]
           c == deallocate(Ctx, cell.held) IN
       /\ CommitHeap(c)
       /\ registry' = [registry EXCEPT
                          !.cells = SubSeq(@, 1, i - 1) \o SubSeq(@, i + 1, Len(@)),
                          !.finalized = Append(@, cell)]
       /\ last' = RecordAt("finalize", cell.target, cell.held, c, NoOptions, << >>, << >>,
                           NoView)
    /\ UNCHANGED refs

\* Operations of the program on the references it can reach.
Reachable(r) == IsRef(r) /\ r \notin registry.unreachable

ReclaimNext ==
    \/ \E kind \in RefKinds, address \in RefAddresses, count \in 1..MaxElementCount :
          count \in ElementCounts(kind) /\ Wrap(kind, address, count)
    \/ \E kind \in RefKinds, address \in AllocAddresses, count \in 1..MaxElementCount :
          count \in ElementCounts(kind) /\ Alloc(kind, address, count)
    \/ \E kind \in NumericRefKinds, address \in AllocAddresses, v \in Values :
          AllocInitial(kind, address, v)
    \/ \E kind \in TypedArrayRefKinds, address \in AllocAddresses, v \in Values :
          AllocElements(kind, address,
                        [i \in 1..MaxElementCount |-> ToBits(v, BytesPerElement(ElementKind(kind)))])
    \/ \E kind \in StringRefKinds, address \in AllocAddresses, t \in Texts :
          AllocText(kind, address, t)
    \/ \E address \in FreedAddresses : FreeAddress(address)
    \/ \E r \in 1..MaxRefs, freeOptions \in FreeOptions :
          Reachable(r) /\ Free(r, freeOptions)
    \/ \E r \in 1..MaxRefs : Drop(r)
    \/ \E i \in 1..(2 * MaxRefs) : Finalize(i)

\* The references of a program that allocates, wraps, frees and drops
\* them, with and without automatic reclamation.
SpecReclaim == InitReclaim /\ [][ReclaimNext]_vars

----------------------------------------------------------------------------
(* Pointer53 cells *)

\* 2^53 - 1, the greatest pointer53 value, and 2^53.
MaxSafeInteger == Num(FALSE, <<255, 255, 255, 255, 255, 255, 31, 0>>)

TwoTo53 == Num(FALSE, <<0, 0, 0, 0, 0, 0, 32, 0>>)

\* The Numbers written to pointer53 cells: within the range, just above it
\* and below it.
Pointer53Values == {Small(0), Small(16), MaxSafeInteger, TwoTo53, Small(-1)}

Pointer53Next ==
    \/ \E address \in NumericAddresses, v \in Pointer53Values :
          WriteNumeric("Pointer53", address, v)
    \/ \E address \in NumericAddresses, v \in Pointer53Values :
          WriteNumericAtomic("Pointer53", address, v)
    \/ \E address \in NumericAddresses : ReadNumeric("Pointer53", address)
    \/ \E address \in NumericAddresses : ReadNumericAtomic("Pointer53", address)

\* writePointer53, readPointer53 and their atomic variants on one heap.
SpecPointer53 == InitNumeric /\ [][Pointer53Next]_vars

----------------------------------------------------------------------------
(* Typed arrays of numeric cells *)

\* The typed-array reference classes whose elements the model has values
\* for; a reference is [kind, address, count] with the kind of its cells.
ArrayKinds == NumericKinds \cup {"Pointer53"}

\* <K>ArrayRef.bytesPerElement
ArrayRef_bytesPerElement(ref) == BytesPerElement(CellView(ref.kind))

\* <K>ArrayRef.readAt(index)
ArrayRef_readAt(c, ref, index) ==
    readNumeric(assertNotFreed(c, ref), ref.kind,
                ref.address + index * ArrayRef_bytesPerElement(ref))

\* <K>ArrayRef.readAtomicAt(index)
ArrayRef_readAtomicAt(c, ref, index) ==
    readNumericAtomic(assertNotFreed(c, ref), ref.kind,
                      ref.address + index * ArrayRef_bytesPerElement(ref))

\* A faulty variant: the index is not scaled by the element width.
ArrayRef_writeAt_unscaled(c, ref, index, v) ==
    writeNumeric(assertNotFreed(c, ref), ref.kind, ref.address + index, v)

\* <K>ArrayRef.writeAt(index, value)
ArrayRef_writeAt(c, ref, index, v) ==
    writeNumeric(assertNotFreed(c, ref), ref.kind,
                 ref.address + index * ArrayRef_bytesPerElement(ref), v)

\* <K>ArrayRef.writeAtomicAt(index, value)
ArrayRef_writeAtomicAt(c, ref, index, v) ==
    writeNumericAtomic(assertNotFreed(c, ref), ref.kind,
                       ref.address + index * ArrayRef_bytesPerElement(ref), v)

\* <K>ArrayRef.view
ArrayRef_view(c, ref) ==
    viewArray(assertNotFreed(c, ref), CellView(ref.kind), ref.address, ref.count)

\* The values written to the elements: a bound of the kind and 1.
ArrayValues(K) ==
    {Small(1)} \cup (CASE K = "Pointer53" -> {MaxSafeInteger}
                       [] CellView(K) \in SignedViews -> {MinValue(CellView(K))}
                       [] OTHER -> {MaxValue(CellView(K))})

ArrayAddresses == {8}

ArrayLengths == {24}

InitArrays ==
    /\ Constructed(ArrayLengths)
    /\ options = defaultWasmHeapManagerOptions
    /\ agents = << >>

ArrayRecord(op, r, c, index, given, returned, view) ==
    [op |-> op, ref |-> r, address |-> IF IsRef(r) THEN refs[r].address ELSE 0,
     index |-> index, given |-> given,
     returned |-> IF c.err THEN << >> ELSE returned,
     view |-> IF c.err THEN NoView ELSE view,
     err |-> c.err, changed |-> ChangedBytes(c), dealloc |-> c.dealloc, allocs |-> c.allocs]

\* wrap<K>Array(address, elementCount)
WrapArray(K, address, elementCount) ==
    /\ Len(refs) < MaxRefs
    /\ refs' = Append(refs, [kind |-> K, address |-> address, count |-> elementCount])
    /\ last' = ArrayRecord("wrap", 0, Ctx, 0, << >>, << >>, NoView)
    /\ UNCHANGED <<arena, options, heapLengths, bufs, currentHeap, cachedHeap, cachedViews, agents,
                   registry>>

ArrayReadAt(r, index) ==
    /\ IsRef(r)
    /\ LET x == ArrayRef_readAt(Ctx, refs[r], index) IN
       /\ Commit(x.c)
       /\ last' = ArrayRecord("readAt", r, x.c, index, << >>, x.v, NoView)
    /\ UNCHANGED refs

ArrayReadAtomicAt(r, index) ==
    /\ IsRef(r)
    /\ LET x == ArrayRef_readAtomicAt(Ctx, refs[r], index) IN
       /\ Commit(x.c)
       /\ last' = ArrayRecord("readAtomicAt", r, x.c, index, << >>, x.v, NoView)
    /\ UNCHANGED refs

ArrayWriteAt(r, index, v) ==
    /\ IsRef(r)
    /\ v \in ArrayValues(refs[r].kind)
    /\ LET c == ArrayRef_writeAt(Ctx, refs[r], index, v) IN
       /\ Commit(c)
       /\ last' = ArrayRecord("writeAt", r, c, index, <<v>>, << >>, NoView)
    /\ UNCHANGED refs

ArrayWriteAtomicAt(r, index, v) ==
    /\ IsRef(r)
    /\ v \in ArrayValues(refs[r].kind)
    /\ LET c == ArrayRef_writeAtomicAt(Ctx, refs[r], index, v) IN
       /\ Commit(c)
       /\ last' = ArrayRecord("writeAtomicAt", r, c, index, <<v>>, << >>, NoView)
    /\ UNCHANGED refs

ArrayView(r) ==
    /\ IsRef(r)
    /\ LET x == ArrayRef_view(Ctx, refs[r]) IN
       /\ Commit(x.c)
       /\ last' = ArrayRecord("view", r, x.c, 0, << >>, << >>, x.v)
    /\ UNCHANGED refs

ArrayFree(r) ==
    /\ IsRef(r)
    /\ LET x == HeapRef_free(Ctx, refs[r]) IN
       /\ Commit(x.c)
       /\ refs' = [refs EXCEPT ![r].address = x.address]
       /\ last' = ArrayRecord("free", r, x.c, 0, << >>, << >>, NoView)

\* Every value the model writes to an element of some kind.
AllArrayValues == UNION {ArrayValues(K) : K \in ArrayKinds}

ArraysNext ==
    \/ \E K \in ArrayKinds, address \in ArrayAddresses :
          WrapArray(K, address, MaxElementCount)
    \/ \E r \in 1..MaxRefs, index \in 0..MaxElementCount : ArrayReadAt(r, index)
    \/ \E r \in 1..MaxRefs, index \in 0..MaxElementCount : ArrayReadAtomicAt(r, index)
    \/ \E r \in 1..MaxRefs, index \in 0..MaxElementCount, v \in AllArrayValues :
          ArrayWriteAt(r, index, v)
    \/ \E r \in 1..MaxRefs, index \in 0..MaxElementCount, v \in AllArrayValues :
          ArrayWriteAtomicAt(r, index, v)
    \/ \E r \in 1..MaxRefs : ArrayView(r)
    \/ \E r \in 1..MaxRefs : ArrayFree(r)

\* One typed-array reference of each kind, its elements and the element
\* just past them.
SpecArrays == InitArrays /\ [][ArraysNext]_vars

----------------------------------------------------------------------------
(* The scan for a null terminator *)

\* The words the scanned heap is made of: 0x04030201, 0x00030201, whose
\* zero byte is no zero element of two bytes, and 0.
ScanWords == {67305985, 197121, 0}

ScanAddresses == {8, 12}

ScanLengths == {16}

\* The maxElementCount arguments: absent, or a count up to a heap's length.
ScanLimits == {<< >>} \cup {<<n>> : n \in 0..(MaxElementCount + 2)}

InitScan == Constructed(ScanLengths) /\ agents = << >>

\* manager.getElementCountOfNullTerminatedString(address, width,
\* maxElementCount)
GetElementCountOfNullTerminatedString(address, width, maxElementCount) ==
    /\ LET n == getElementCountOfNullTerminatedString(Ctx, address, width,
                                                      maxElementCount) IN
       /\ Commit(n.c)
       /\ last' = RecordAt("getElementCountOfNullTerminatedString", 0, address, n.c,
                           NoOptions, <<n.v>>, << >>, NoView)
                  @@ [width |-> width, max |-> maxElementCount]
    /\ UNCHANGED refs

ScanNext ==
    \/ \E address \in ScanAddresses, v \in ScanWords : WriteUint32(address, v)
    \/ \E address \in ScanAddresses, width \in {1, 2, 4}, maxElementCount \in ScanLimits :
          GetElementCountOfNullTerminatedString(address, width, maxElementCount)

\* Scans of a heap of two words.
SpecScan == InitScan /\ [][ScanNext]_vars

----------------------------------------------------------------------------
(* Allocation failure *)

FailingNext ==
    \/ \E address \in Uint32Addresses, v \in Uint32Values : WriteUint32(address, v)
    \/ \E threw \in BOOLEAN, kind \in NumericRefKinds, address \in AllocAddresses,
          v \in Values : AllocInitialAfter(threw, kind, address, v)
    \/ \E threw \in BOOLEAN, kind \in TypedArrayRefKinds, address \in AllocAddresses,
          v \in Values :
          AllocElementsAfter(threw, kind, address,
                             [i \in 1..MaxElementCount |->
                                 ToBits(v, BytesPerElement(ElementKind(kind)))])
    \/ \E threw \in BOOLEAN, kind \in StringRefKinds, address \in AllocAddresses,
          t \in Texts : AllocTextAfter(threw, kind, address, t)
    \/ \E r \in 1..MaxRefs, freeOptions \in FreeOptions : Free(r, freeOptions)

\* Allocations through an allocator that may throw.
SpecFailing == InitReclaim /\ [][FailingNext]_vars

----------------------------------------------------------------------------
(* The 128-bit and 256-bit extensions *)

\* A non-negative BigInt of any size: its little-endian bytes up to the
\* last nonzero one.
RECURSIVE BigUint(_)
BigUint(bytes) ==
    IF bytes = << >> \/ bytes[Len(bytes)] # 0 THEN bytes
    ELSE BigUint(SubSeq(bytes, 1, Len(bytes) - 1))

\* The bytes the BigUint64 element store keeps of value >> (64n * n), masked
\* with 0xff_ff_ff_ff_ff_ff_ff_ffn or not: that value modulo 2^64.
WordOf(value, n) == [i \in 1..8 |-> IF 8 * n + i <= Len(value) THEN value[8 * n + i] ELSE 0]

\* Faulty variants: the most significant word at the lowest address.
RECURSIVE StoreWords_bigEndian(_, _, _, _, _)
StoreWords_bigEndian(c, index, value, n, words) ==
    IF n = words THEN c
    ELSE StoreWords_bigEndian(SetElement(c, "BigUint64", index + n,
                                         WordOf(value, (words - 1) - n)),
                              index, value, n + 1, words)

writeBigUintLE_bigEndian(c, words, address, value) ==
    LET d == heapView(c) IN
    IF d.err \/ address % 8 # 0 THEN d
    ELSE StoreWords_bigEndian(d, address \div 8, value, 0, words)

\* heapBigUint64[index + n] = (value >> (64n * n)) & 0xff_ff_ff_ff_ff_ff_ff_ffn
\* for the words from n on; a store beyond the view is ignored.
RECURSIVE StoreWords(_, _, _, _, _)
StoreWords(c, index, value, n, words) ==
    IF n = words THEN c
    ELSE StoreWords(SetElement(c, "BigUint64", index + n, WordOf(value, n)),
                    index, value, n + 1, words)

\* WasmHeapManager.writeBigUint128LE(address, value) (words = 2) and
\* writeBigUint256LE(address, value) (words = 4): index = address / 8, and
\* the stores to a non-integer index are ignored.
writeBigUintLE(c, words, address, value) ==
    LET d == heapView(c) IN
    IF d.err \/ address % 8 # 0 THEN d
    ELSE StoreWords(d, address \div 8, value, 0, words)

\* heapBigUint64[index] | heapBigUint64[index + 1] << 64n | ...: the words
\* side by side.
RECURSIVE LoadWords(_, _, _, _)
LoadWords(c, index, n, words) ==
    IF n = words THEN << >>
    ELSE ElementBits(c, "BigUint64", index + n) \o LoadWords(c, index, n + 1, words)

\* WasmHeapManager.readBigUint128LE(address) (words = 2) and
\* readBigUint256LE(address) (words = 4): an element that is undefined, at a
\* non-integer index or beyond the view, makes the BigInt expression throw a
\* TypeError.
readBigUintLE(c, words, address) ==
    LET d == heapView(c) IN
    IF d.err THEN [c |-> d, v |-> << >>]
    ELSE IF address % 8 # 0 \/ (address \div 8) + words > ViewLength(d, "BigUint64")
    THEN [c |-> Throw(d), v |-> << >>]
    ELSE [c |-> d, v |-> <<BigUint(LoadWords(d, address \div 8, 0, words))>>]

\* The bytes 1, 2, ..., n and the value 2^(8n) - 1.
Counting(n) == [i \in 1..n |-> i]

AllOnes(n) == [i \in 1..n |-> 255]

\* The values written: 0, 1, 2^64, distinct bytes throughout, the greatest
\* value of the width and, for 256 bits, 2^192.
WideValues(words) ==
    {<< >>, <<1>>, <<0, 0, 0, 0, 0, 0, 0, 0, 1>>, Counting(8 * words), AllOnes(8 * words)}
        \cup (IF words = 4 THEN {[i \in 1..25 |-> IF i = 25 THEN 1 ELSE 0]} ELSE {})

WideWords == {2, 4}

\* Addresses that are multiples of 8, with the cells in the heap or partly
\* beyond it, and one that is not.
WideAddresses == {8, 12, 16, 32}

WideLengths == {48}

InitWide ==
    /\ Constructed(WideLengths)
    /\ options = defaultWasmHeapManagerOptions
    /\ agents = << >>

WideOps == {"writeBigUintLE", "readBigUintLE"}

WideWrites == IF last.op \in WideOps THEN last.writes ELSE 0

WideRecord(op, words, address, c, given, returned) ==
    [op |-> op, words |-> words, address |-> address, given |-> given,
     returned |-> IF c.err THEN << >> ELSE returned, err |-> c.err,
     before |-> bufs, changed |-> ChangedBytes(c),
     written |-> IF last.op = "writeBigUintLE" THEN last.given ELSE << >>,
     writes |-> WideWrites + (IF op = "writeBigUintLE" THEN 1 ELSE 0)]

\* manager.writeBigUint128LE(address, v), manager.writeBigUint256LE(address, v)
WriteBigUintLE(words, address, v) ==
    /\ WideWrites < MaxWrites
    /\ LET c == writeBigUintLE(Ctx, words, address, v) IN
       /\ Commit(c)
       /\ last' = WideRecord("writeBigUintLE", words, address, c, <<v>>, << >>)
    /\ UNCHANGED refs

\* manager.readBigUint128LE(address), manager.readBigUint256LE(address), of
\* the cells just written
ReadBigUintLE(words, address) ==
    /\ last.op = "writeBigUintLE"
    /\ last.words = words
    /\ last.address = address
    /\ LET x == readBigUintLE(Ctx, words, address) IN
       /\ Commit(x.c)
       /\ last' = WideRecord("readBigUintLE", words, address, x.c, << >>, x.v)
    /\ UNCHANGED refs

WideNext ==
    \/ \E words \in WideWords, address \in WideAddresses :
          \E v \in WideValues(words) : WriteBigUintLE(words, address, v)
    \/ \E words \in WideWords, address \in WideAddresses : ReadBigUintLE(words, address)

\* The 128-bit and 256-bit cells of one heap.
SpecWide == InitWide /\ [][WideNext]_vars

----------------------------------------------------------------------------
(* The arena allocators *)

\* The bytes of a WebAssembly page, 2 ** 16.
PageSize == 65536

\* The greatest address from which the model still allocates.
MaxArenaAddress == 40

\* The most regions an allocator hands out between two resets.
MaxRegions == 3

\* A faulty variant: the value is returned as it is.
alignToNextMultiple_unaligned(value, alignmentConstant) == value

\* alignToNextMultiple(value, alignmentConstant)
alignToNextMultiple(value, alignmentConstant) ==
    LET alignmentRemainder == value % alignmentConstant IN
    IF alignmentRemainder > 0
    THEN value + (alignmentConstant - alignmentRemainder)
    ELSE value

\* A faulty variant: the size is rounded down.
Ceil_floor(halves) == halves \div 2

\* Math.ceil of a size given in halves of a byte.
Ceil(halves) == (halves + 1) \div 2

\* new WasmMemoryArenaAllocator(wasmMemory, alignmentConstant) and
\* new ArrayBufferArenaAllocator(initialCapacity, alignmentConstant):
\* capacity is heap.byteLength, maximumPages the memory's maximum.
ArenaAllocator(allocator, capacity, maximumPages, alignmentConstant) ==
    [allocator |-> allocator, capacity |-> capacity, maximumPages |-> maximumPages,
     alignmentConstant |-> alignmentConstant,
     currentAllocationAddress |-> alignmentConstant]

\* WebAssembly.Memory.grow(delta): a RangeError beyond the maximum.
grow(a, delta) ==
    IF a.capacity \div PageSize + delta > a.maximumPages
    THEN [a |-> a, err |-> TRUE]
    ELSE [a |-> [a EXCEPT !.capacity = @ + delta * PageSize], err |-> FALSE]

\* WasmMemoryArenaAllocator.allocate(requestedByteSize)
WasmMemoryArenaAllocator_allocate(a, requestedByteSize) ==
    LET startAddress == a.currentAllocationAddress
        endAddress == alignToNextMultiple(startAddress + Ceil(requestedByteSize),
                                          a.alignmentConstant)
        additionalRequiredCapacity == endAddress - a.capacity
        additionalRequiredPages ==
            ((additionalRequiredCapacity + (PageSize - 1)) \div PageSize) + 1
        g == IF endAddress > a.capacity THEN grow(a, additionalRequiredPages)
             ELSE [a |-> a, err |-> FALSE] IN
    IF g.err THEN [a |-> g.a, returned |-> << >>, err |-> TRUE]
    ELSE [a |-> [g.a EXCEPT !.currentAllocationAddress = endAddress],
          returned |-> <<startAddress>>, err |-> FALSE]

\* ArrayBufferArenaAllocator.allocate(requestedByteSize)
ArrayBufferArenaAllocator_allocate(a, requestedByteSize) ==
    LET startAddress == a.currentAllocationAddress
        endAddress == alignToNextMultiple(startAddress + Ceil(requestedByteSize),
                                          a.alignmentConstant)
        g == IF endAddress > a.capacity THEN [a EXCEPT !.capacity = endAddress * 2] ELSE a IN
    [a |-> [g EXCEPT !.currentAllocationAddress = endAddress],
     returned |-> <<startAddress>>, err |-> FALSE]

\* WasmMemoryArenaAllocator.reset(), ArrayBufferArenaAllocator.reset()
reset(a) == [a EXCEPT !.currentAllocationAddress = a.alignmentConstant]

\* The allocators constructed: over a memory of no page or one page that
\* may grow to one page or to four, and over an ArrayBuffer of 0, 16 or
\* 2 ** 16 bytes; aligned to 1, 3 or 8 bytes.
AlignmentConstants == {1, 3, 8}

Arenas ==
    {ArenaAllocator("WasmMemory", pages * PageSize, maximumPages, k) :
        pages \in {0, 1}, maximumPages \in {1, 4}, k \in AlignmentConstants}
    \cup {ArenaAllocator("ArrayBuffer", initialCapacity, 0, k) :
             initialCapacity \in {0, 16, PageSize}, k \in AlignmentConstants}

\* The sizes asked for, in halves of a byte: 0, 1/2, 1, 7/2, 8 and 12 bytes.
RequestedByteSizes == {0, 1, 2, 7, 16, 24}

ArenaOps == {"allocate", "reset"}

\* Whether allocate has returned an address since the construction.
ReturnedBefore == last.op \in ArenaOps /\ (last.returnedBefore \/ last.returned # << >>)

\* The regions handed out since the construction or the last reset, in the
\* order of the calls: the address returned, the size asked for in halves of
\* a byte, and the heap's capacity when allocate returned.
Regions == IF last.op \in ArenaOps THEN last.regions ELSE << >>

\* An allocator before any manager is constructed upon its heap.
InitArena ==
    /\ arena \in Arenas
    /\ options = defaultWasmHeapManagerOptions
    /\ heapLengths = {}
    /\ bufs = << >>
    /\ currentHeap = 0
    /\ cachedHeap = 0
    /\ cachedViews = [k \in ViewKinds |-> 0]
    /\ refs = << >>
    /\ agents = << >>
    /\ registry = NoRegistry
    /\ last = [op |-> "ArenaAllocator"]

\* allocator.allocate(requestedByteSize), the size in halves of a byte
ArenaAllocate(requestedByteSize) ==
    /\ arena.currentAllocationAddress <= MaxArenaAddress
    /\ Len(Regions) < MaxRegions
    /\ LET x == IF arena.allocator = "WasmMemory"
                THEN WasmMemoryArenaAllocator_allocate(arena, requestedByteSize)
                ELSE ArrayBufferArenaAllocator_allocate(arena, requestedByteSize) IN
       /\ arena' = x.a
       /\ last' = [op |-> "allocate", given |-> requestedByteSize,
                   returned |-> x.returned, err |-> x.err,
                   returnedBefore |-> ReturnedBefore, capacityBefore |-> arena.capacity,
                   regions |-> IF x.returned = << >> THEN Regions
                               ELSE Append(Regions, [start |-> x.returned[1],
                                                     size |-> requestedByteSize,
                                                     capacity |-> x.a.capacity])]
    /\ UNCHANGED <<options, heapLengths, bufs, currentHeap, cachedHeap, cachedViews, refs,
                   agents, registry>>

\* allocator.reset()
ArenaReset ==
    /\ arena' = reset(arena)
    /\ last' = [op |-> "reset", given |-> 0, returned |-> << >>, err |-> FALSE,
                returnedBefore |-> ReturnedBefore, capacityBefore |-> arena.capacity,
                regions |-> << >>]
    /\ UNCHANGED <<options, heapLengths, bufs, currentHeap, cachedHeap, cachedViews, refs,
                   agents, registry>>

ArenaNext ==
    \/ \E requestedByteSize \in RequestedByteSizes : ArenaAllocate(requestedByteSize)
    \/ ArenaReset

\* An arena allocator through its allocations and resets.
SpecArena == InitArena /\ [][ArenaNext]_vars

----------------------------------------------------------------------------
(* An allocator that returns 0 *)

\* The addresses the external allocate returns: 0 and one that is not.
NullAddresses == {0, 8}

NullNext ==
    \/ \E address \in Uint32Addresses, v \in Uint32Values : WriteUint32(address, v)
    \/ \E kind \in RefKinds, address \in NullAddresses, count \in 1..MaxElementCount :
          count \in ElementCounts(kind) /\ Alloc(kind, address, count)
    \/ \E kind \in NumericRefKinds, address \in NullAddresses, v \in Values :
          AllocInitial(kind, address, v)
    \/ \E kind \in TypedArrayRefKinds, address \in NullAddresses, v \in Values :
          AllocElements(kind, address,
                        [i \in 1..MaxElementCount |-> ToBits(v, BytesPerElement(ElementKind(kind)))])
    \/ \E kind \in StringRefKinds, address \in NullAddresses, t \in Texts :
          AllocText(kind, address, t)
    \/ \E r \in 1..MaxRefs : Read(r)
    \/ \E r \in 1..MaxRefs, v \in Values : Write(r, v)
    \/ \E r \in 1..MaxRefs : Clear(r)
    \/ \E r \in 1..MaxRefs, freeOptions \in FreeOptions : Free(r, freeOptions)

\* Allocations, with and without zero fill, by an allocator that may return
\* 0, and the use of the references.
SpecNull == InitClearing /\ [][NullNext]_vars

----------------------------------------------------------------------------
(* A deallocate callback that throws *)

\* The addresses for which the external deallocate throws: none, that of the
\* references, that stored in the pointer arrays' elements, both.
ThrowingSets == SUBSET (RefAddresses \cup Values)

\* ref.free(freeOptions) with an external deallocate that throws for the
\* addresses in throwing; the record keeps that set and whether the free()
\* before it on this reference threw.
FreeThrowing(r, freeOptions, throwing) ==
    /\ IsRef(r)
    /\ LET x == free([Ctx EXCEPT !.throwing = throwing], refs[r], freeOptions) IN
       /\ Commit(x.c)
       /\ refs' = [refs EXCEPT ![r].address = x.address]
       /\ last' = Record("free", r, x.c, freeOptions, << >>, << >>, NoView)
                  @@ [throwing |-> throwing,
                      retried |-> last.op = "free" /\ last.ref = r /\ last.err]

ThrowingNext ==
    \/ \E kind \in RefKinds, address \in RefAddresses, count \in 1..MaxElementCount :
          count \in ElementCounts(kind) /\ Wrap(kind, address, count)
    \/ \E r \in 1..MaxRefs, i \in 0..(MaxElementCount - 1), v \in Values : WriteAt(r, i, v)
    \/ \E r \in 1..MaxRefs, freeOptions \in FreeOptions, throwing \in ThrowingSets :
          FreeThrowing(r, freeOptions, throwing)

\* References freed through a deallocate callback that may throw.
SpecThrowing == Init /\ [][ThrowingNext]_vars

----------------------------------------------------------------------------
(* Plain access at addresses that are not multiples of the width *)

\* A multiple of every width, a multiple of 2 only, and an odd address; the
\* cells of every width at them lie in the heap.
UnalignedAddresses == {0, 2, 5}

UnalignedNext ==
    \/ \E K \in NumericKinds, address \in UnalignedAddresses :
          \E v \in NumericValues(K) : WriteNumeric(K, address, v)
    \/ \E K \in NumericKinds, address \in UnalignedAddresses : ReadNumeric(K, address)

\* The manager's plain reads and writes at such addresses.
SpecUnaligned == InitNumeric /\ [][UnalignedNext]_vars

----------------------------------------------------------------------------
(* 128-bit cells shared by several agents *)

\* A faulty variant: the high word is stored first.
writeBigUintLEStores_highFirst(words, address, value) ==
    [n \in 1..words |->
        [k |-> "BigUint64", address |-> address + 8 * (words - n),
         bits |-> WordOf(value, words - n)]]

\* The element stores writeBigUint128LE (words = 2) and writeBigUint256LE
\* (words = 4) make, in their order: heapBigUint64[index + n] for n = 0, 1, ...
writeBigUintLEStores(words, address, value) ==
    [n \in 1..words |->
        [k |-> "BigUint64", address |-> address + 8 * (n - 1), bits |-> WordOf(value, n - 1)]]

SharedWideAddresses == {0}

\* The values the two agents write.
SharedWideValues == {Counting(16), AllOnes(16), <<1>>}

\* How many stores each writing agent has made.
Progress == [w \in Writers |-> agents[w].calls]

\* writeBigUint128LE(address, value), up to its first store: the view and
\* the index are taken. The agent's record keeps how far the other writers
\* were when it began.
WriteBigUint128LE_begin(a, address, value) ==
    /\ a \in Writers
    /\ agents[a].pc = "idle"
    /\ \A w \in Writers : IF agents[w].pc = "idle" THEN TRUE ELSE agents[w].value # value
    /\ agents' = [agents EXCEPT ![a] =
                     [pc |-> "store", address |-> address, value |-> value,
                      bits |-> << >>,
                      pending |-> writeBigUintLEStores(2, address, value),
                      calls |-> 0, after |-> Progress]]
    /\ last' = [op |-> "agent", agent |-> a, err |-> FALSE]
    /\ UNCHANGED <<arena, options, heapLengths, bufs, currentHeap, cachedHeap, cachedViews, refs,
                 registry>>

\* heapBigUint64[index + n] = word: one plain store to the shared buffer.
WriteBigUint128LE_store(a) ==
    /\ a \in Writers
    /\ agents[a].pc = "store"
    /\ LET s == Head(agents[a].pending)
           c == SetElement(Ctx, s.k, s.address \div 8, s.bits) IN
       /\ bufs' = c.bufs
       /\ agents' = [agents EXCEPT ![a].pending = Tail(@),
                                   ![a].calls = @ + 1,
                                   ![a].pc = IF Len(agents[a].pending) = 1
                                             THEN "done" ELSE "store"]
       /\ last' = [op |-> "agent", agent |-> a, err |-> c.err]
    /\ UNCHANGED <<arena, options, heapLengths, currentHeap, cachedHeap, cachedViews, refs,
                   registry>>

\* readBigUint128LE(address), one of its two loads, the low word first; the
\* reading agent's record keeps the words loaded and, for each load, how far
\* the writers were.
ReadBigUint128LE_load(address) ==
    /\ agents[Reader].pc \in {"idle", "load"}
    /\ agents[Reader].pc = "load" => agents[Reader].address = address
    /\ LET n == agents[Reader].calls
           word == ElementBits(Ctx, "BigUint64", (address \div 8) + n)
           loaded == agents[Reader].bits \o word IN
       agents' = [agents EXCEPT ![Reader] =
                     [pc |-> IF n = 1 THEN "done" ELSE "load", address |-> address,
                      value |-> IF n = 1 THEN BigUint(loaded) ELSE "none",
                      bits |-> loaded,
                      pending |-> Append(agents[Reader].pending, Progress),
                      calls |-> n + 1]]
    /\ last' = [op |-> "agent", agent |-> Reader, err |-> FALSE]
    /\ UNCHANGED <<arena, options, heapLengths, bufs, currentHeap, cachedHeap, cachedViews, refs,
                 registry>>

SharedWideNext ==
    \/ \E a \in Writers, address \in SharedWideAddresses, value \in SharedWideValues :
          WriteBigUint128LE_begin(a, address, value)
    \/ \E a \in Writers : WriteBigUint128LE_store(a)
    \/ \E address \in SharedWideAddresses : ReadBigUint128LE_load(address)

\* Agents interleaving 128-bit accesses on one shared buffer.
SpecSharedWide == InitAgents /\ [][SharedWideNext]_vars

----------------------------------------------------------------------------
(* A manager upon the heap of an ArrayBufferArenaAllocator *)

\* The capacities the allocator is constructed with.
ArenaHeapCapacities == {0, 8, 16}

\* new ArrayBufferArenaAllocator(initialCapacity, alignmentConstant) and a
\* manager constructed with () => allocator.heap as its heap getter.
InitArenaHeap ==
    /\ \E initialCapacity \in ArenaHeapCapacities, k \in AlignmentConstants :
          /\ arena = ArenaAllocator("ArrayBuffer", initialCapacity, 0, k)
          /\ bufs = <<[i \in 1..initialCapacity |-> 0]>>
    /\ options \in OptionSets
    /\ heapLengths = ArenaHeapCapacities
    /\ currentHeap = 1
    /\ cachedHeap = 1
    /\ cachedViews = [k \in ViewKinds |-> 1]
    /\ refs = << >>
    /\ agents = << >>
    /\ registry = NoRegistry
    /\ last = [op |-> "constructor", ref |-> 0, address |-> 0,
               freeOptions |-> NoOptions, err |-> FALSE,
               value |-> << >>, text |-> << >>, view |-> NoView,
               dealloc |-> << >>, allocs |-> 0, acc |-> << >>,
               getterCalls |-> 1, heapChanged |-> FALSE]

\* allocator.allocate(requestedByteSize), the size in halves of a byte, with
\* the heap's bytes: a growth makes allocator.heap a new buffer. The record
\* keeps the heap as it was before the call and which buffer it was.
ArenaHeapAllocate(requestedByteSize) ==
    /\ arena.currentAllocationAddress <= MaxArenaAddress
    /\ LET x == ArrayBufferArenaAllocator_allocate(arena, requestedByteSize)
           grown == x.a.capacity # arena.capacity
           g == allocate(Ctx, IF grown THEN x.a.capacity ELSE 0, FALSE) IN
       /\ grown => Len(bufs) < MaxBuffers
       /\ arena' = x.a
       /\ bufs' = g.bufs
       /\ currentHeap' = g.heap
       /\ last' = [op |-> "allocate", given |-> requestedByteSize,
                   returned |-> x.returned, err |-> x.err, grown |-> grown,
                   before |-> bufs[currentHeap], heapBefore |-> currentHeap]
    /\ UNCHANGED <<options, heapLengths, cachedHeap, cachedViews, refs, agents, registry>>

ArenaHeapNext ==
    \/ \E requestedByteSize \in RequestedByteSizes : ArenaHeapAllocate(requestedByteSize)
    \/ \E address \in Uint32Addresses, v \in Uint32Values : WriteUint32(address, v)

\* An ArrayBufferArenaAllocator's heap through its growth, written by a
\* manager.
SpecArenaHeap == InitArenaHeap /\ [][ArenaHeapNext]_vars

----------------------------------------------------------------------------
(* Properties *)

\* The reference the last operation was called on.
LastRef == refs[last.ref]

\* The operation was called on a reference that was Freed / Live.
OnFreed == last.ref # 0 /\ last.address = 0
OnLive == last.ref # 0 /\ last.address # 0

\* The number stored little-endian in the w bytes at address.
RECURSIVE LittleEndian(_, _, _)
LittleEndian(bytes, address, w) ==
    IF w = 0 THEN 0
    ELSE bytes[address + 1] + 256 * LittleEndian(bytes, address + 1, w - 1)

AllViewsOf(buffer) == \A k \in ViewKinds : cachedViews[k] = buffer

AccessorOps ==
    {"read", "write", "readAtomic", "writeAtomic", "getValue", "setValue",
     "readAt", "writeAt", "readAtomicAt", "writeAtomicAt", "view", "clear"}

\* C1: read, write, readAtomic, writeAtomic, value get/set, readAt, writeAt,
\* readAtomicAt, writeAtomicAt, view and clear on a Freed reference of any
\* kind throw, change no byte of any buffer and call neither allocate nor
\* deallocate.
C1_UseAfterFree ==
    (last.op \in AccessorOps /\ OnFreed) =>
        /\ last.err
        /\ ~last.heapChanged
        /\ last.dealloc = << >>
        /\ last.allocs = 0

\* C1 witness: readAt on a typed array reference that free() has freed.
C1_Witness ==
    /\ last.op = "readAt"
    /\ OnFreed
    /\ last.err

\* C2: free() on a Live reference at A calls deallocate exactly once, with A,
\* and leaves the reference Freed; free() on a Freed reference calls nothing,
\* throws nothing and changes nothing.  (free({freeElements: true}) on a
\* pointer array is C5's.)
C2_FreeOnce ==
    (/\ last.op = "free"
     /\ ~(LastRef.kind \in PointerArrayRefKinds /\ last.freeOptions.freeElements)) =>
        /\ ~last.err
        /\ isFreed(LastRef)
        /\ ~last.heapChanged
        /\ last.allocs = 0
        /\ last.acc = << >>
        /\ last.dealloc = IF last.address # 0 THEN <<last.address>> ELSE << >>

\* C2 witness: a second free() on a reference already Freed.
C2_Witness ==
    /\ last.op = "free"
    /\ OnFreed
    /\ last.dealloc = << >>

ViewAccessorOps ==
    {"allocatedBytesView", "allocatedElementsView", "encodedElementsView",
     "encodedBytesView"}

\* C3: allocatedBytesView, allocatedElementsView, encodedElementsView and
\* encodedBytesView on a Freed reference throw and return no view.
C3_ViewsAssertNotFreed ==
    (last.op \in ViewAccessorOps /\ OnFreed) =>
        /\ last.err
        /\ last.view = NoView

PointerRefKinds == {"Pointer32Ref", "Pointer53Ref", "Pointer64Ref"}

\* C4: free({freePointedAddress: true}) on a Live pointer reference at A
\* whose stored value is P calls deallocate(P), then deallocate(A), and
\* leaves the reference Freed.
C4_PointerCascade ==
    (/\ last.op = "free"
     /\ OnLive
     /\ LastRef.kind \in PointerRefKinds
     /\ last.freeOptions.freePointedAddress
     /\ last.address + bytesPerElement(LastRef) <= Len(bufs[cachedHeap])) =>
        /\ ~last.err
        /\ isFreed(LastRef)
        /\ last.dealloc =
              <<LittleEndian(bufs[cachedHeap], last.address, bytesPerElement(LastRef)),
                last.address>>

\* C5: free({freeElements: true}) on a Live pointer array reference of n
\* elements at A, all within the heap, calls deallocate with the stored
\* elements in index order and then with A; without the option it calls
\* deallocate(A) alone; either way the reference is Freed afterwards.
C5_FreeElements ==
    (/\ last.op = "free"
     /\ OnLive
     /\ LastRef.kind \in PointerArrayRefKinds
     /\ last.address + allocatedByteCount(LastRef) <= Len(bufs[cachedHeap])) =>
        /\ ~last.err
        /\ isFreed(LastRef)
        /\ last.dealloc =
              IF last.freeOptions.freeElements
              THEN [i \in 1..(LastRef.count + 1) |->
                       IF i <= LastRef.count
                       THEN LittleEndian(bufs[cachedHeap],
                                         last.address + (i - 1) * bytesPerElement(LastRef),
                                         bytesPerElement(LastRef))
                       ELSE last.address]
              ELSE <<last.address>>

\* C5 witness: a cascade over two elements that differ.
C5_Witness ==
    /\ last.op = "free"
    /\ OnLive
    /\ last.freeOptions.freeElements
    /\ Len(last.dealloc) = 3
    /\ last.dealloc[1] # last.dealloc[2]

\* C6: all eleven cached views project the cached buffer, also after a
\* rebuild that failed part-way.
C6_OneGeneration == AllViewsOf(cachedHeap)

\* C7: under 'always', when heapGetter returns a buffer of nonzero length,
\* writeUint32(A, v) at a 4-aligned A within it stores v's four little-endian
\* bytes in that buffer, with every cached view projecting it, and
\* readUint8(a) returns that buffer's byte at a.
C7_CoherentAfterReplacement ==
    (/\ options.pollingMode = "always"
     /\ Len(bufs[currentHeap]) > 0) =>
        /\ (last.op = "writeUint32" /\ last.address + 4 <= Len(bufs[currentHeap])) =>
              /\ ~last.err
              /\ cachedHeap = currentHeap
              /\ AllViewsOf(currentHeap)
              /\ \A i \in 1..4 : bufs[currentHeap][last.address + i] = last.value[1][i]
              /\ LittleEndian(bufs[currentHeap], last.address, 4) \in Uint32Values
        /\ (last.op = "readUint8" /\ last.address < Len(bufs[currentHeap])) =>
              /\ ~last.err
              /\ cachedHeap = currentHeap
              /\ last.value = <<<<bufs[currentHeap][last.address + 1]>>>>

\* C7 witness: the heap was replaced by a buffer of another nonzero length,
\* and the uint32 written afterwards is in the new buffer and not in the old
\* one.
C7_Witness ==
    /\ options.pollingMode = "always"
    /\ last.op = "writeUint32"
    /\ currentHeap = 2
    /\ Len(bufs[1]) > 0
    /\ Len(bufs[2]) > 0
    /\ Len(bufs[1]) # Len(bufs[2])
    /\ bufs[2][last.address + 1] = 1
    /\ bufs[1][last.address + 1] = 0

\* C8: under 'whenEmpty' an access calls heapGetter exactly when the cached
\* buffer's length is 0, and replaces the cached buffer and rebuilds all
\* views exactly when the buffer returned has a nonzero length.
C8_WhenEmpty ==
    options.pollingMode = "whenEmpty" =>
        /\ \A j \in 1..Len(last.acc) :
              LET e == last.acc[j] IN
              /\ e.polled <=> Len(bufs[e.before]) = 0
              /\ e.rebuilt <=> (e.polled /\ Len(bufs[e.got]) > 0)
              /\ e.after = IF e.rebuilt THEN e.got ELSE e.before
        /\ last.op # "constructor" =>
              last.getterCalls = Cardinality({j \in 1..Len(last.acc) : last.acc[j].polled})
        /\ (last.acc # << >> /\ last.acc[Len(last.acc)].rebuilt) =>
              AllViewsOf(last.acc[Len(last.acc)].got)
        /\ last.acc # << >> => cachedHeap = last.acc[Len(last.acc)].after

\* C8 witness: an access found the cache empty, polled and rebuilt, and a
\* later access of the same operation did not poll.
C8_Witness ==
    /\ options.pollingMode = "whenEmpty"
    /\ Len(last.acc) >= 2
    /\ last.acc[1].rebuilt
    /\ ~last.acc[2].polled

\* C9 as stated: under 'always' every access calls heapGetter and rebuilds
\* exactly when the returned buffer's length differs from the cached one's.
C9_AlwaysLengthDiffers ==
    options.pollingMode = "always" =>
        \A j \in 1..Len(last.acc) :
            LET e == last.acc[j] IN
            /\ e.polled
            /\ e.rebuilt <=> Len(bufs[e.got]) # Len(bufs[e.before])

\* C9 amended: under 'always' every access calls heapGetter and rebuilds
\* exactly when the returned buffer's length is nonzero.
C9_AlwaysNonEmpty ==
    options.pollingMode = "always" =>
        /\ \A j \in 1..Len(last.acc) :
              LET e == last.acc[j] IN
              /\ e.polled
              /\ e.rebuilt <=> Len(bufs[e.got]) > 0
              /\ e.after = IF e.rebuilt THEN e.got ELSE e.before
        /\ last.op # "constructor" => last.getterCalls = Len(last.acc)
        /\ (last.acc # << >> /\ last.acc[Len(last.acc)].rebuilt) =>
              AllViewsOf(last.acc[Len(last.acc)].got)
        /\ last.acc # << >> => cachedHeap = last.acc[Len(last.acc)].after

\* C9 witness: a rebuild upon a returned buffer as long as the cached one,
\* and an access that kept the cache because the returned buffer was empty.
C9_Witness ==
    /\ options.pollingMode = "always"
    /\ last.acc # << >>
    /\ last.acc[1].rebuilt
    /\ Len(bufs[last.acc[1].got]) = Len(bufs[last.acc[1].before])

\* C10: under 'never' heapGetter is called once, by the constructor, and the
\* cached buffer and views stay those of the first buffer.
C10_Never ==
    options.pollingMode = "never" =>
        /\ cachedHeap = 1
        /\ AllViewsOf(1)
        /\ last.getterCalls = IF last.op = "constructor" THEN 1 ELSE 0
        /\ \A j \in 1..Len(last.acc) : ~last.acc[j].polled /\ ~last.acc[j].rebuilt

\* C10 witness: an access after the embedder replaced and detached the heap.
C10_Witness ==
    /\ options.pollingMode = "never"
    /\ currentHeap # 1
    /\ Len(bufs[1]) = 0
    /\ last.acc # << >>
    /\ last.op = "write"

\* The width of a numeric kind, and whether its cell at address lies in the
\* heap at a multiple of the width.
Width(K) == BytesPerElement(CellView(K))

CellInHeap(K, address) ==
    /\ address % Width(K) = 0
    /\ address + Width(K) <= Len(bufs[currentHeap])

\* v is a value of kind K.
Representable(K, v) ==
    LET w == Width(K) IN
    /\ \A i \in (w + 1)..8 : v.mag[i] = 0
    /\ IF CellView(K) \in SignedViews
       THEN IF v.neg
            THEN v.mag[w] < 128 \/ v.mag = [i \in 1..8 |-> IF i = w THEN 128 ELSE 0]
            ELSE v.mag[w] < 128
       ELSE ~v.neg

\* C11: for every numeric kind, a value of the kind written to a cell in
\* the heap at a multiple of the kind's width is what the next read of the
\* cell returns, on the plain path and on the atomic path, and the write
\* changes no byte outside the cell.
C11_NumericRoundTrip ==
    /\ (/\ last.op \in {"read", "readAtomic"}
        /\ last.prev.op = (IF last.op = "read" THEN "write" ELSE "writeAtomic")
        /\ CellInHeap(last.kind, last.address)
        /\ Representable(last.kind, last.prev.given[1])) =>
          /\ ~last.err
          /\ last.returned = last.prev.given
    /\ (/\ last.op \in {"write", "writeAtomic"}
        /\ CellInHeap(last.kind, last.address)
        /\ Representable(last.kind, last.given[1])) =>
          /\ ~last.err
          /\ \A i \in 1..Len(bufs[currentHeap]) :
                (i <= last.address \/ i > last.address + Width(last.kind)) =>
                    bufs[currentHeap][i] = last.before[currentHeap][i]

\* C11 witness: the least int64 read back at address 8 over the bytes of an
\* earlier write.
C11_Witness ==
    /\ last.op = "read"
    /\ last.prev.op = "write"
    /\ last.kind = "BigInt64"
    /\ last.address = 8
    /\ last.writes = 2
    /\ last.returned = <<Num(TRUE, <<0, 0, 0, 0, 0, 0, 0, 128>>)>>

\* min(max(v, 0), 255) of an integer v, as a byte.
Saturated(v) ==
    CHOOSE n \in 0..255 :
        \/ v = Small(n)
        \/ n = 0 /\ v.neg
        \/ n = 255 /\ ~v.neg /\ \A m \in 0..255 : v # Small(m)

\* C13: writeUint8ClampedAtomic(addr, v) stores min(max(v, 0), 255), the
\* byte writeUint8Clamped(addr, v) stores, and readUint8ClampedAtomic(addr)
\* returns it.
C13_SaturatingAtomicStore ==
    (/\ last.op \in NumericOps
     /\ last.kind = "Uint8Clamped"
     /\ last.address < Len(bufs[currentHeap])) =>
        /\ ~last.err
        /\ last.op \in {"write", "writeAtomic"} =>
              bufs[currentHeap][last.address + 1] = Saturated(last.given[1])
        /\ (last.op = "readAtomic" /\ last.prev.op = "writeAtomic") =>
              last.returned = <<Small(Saturated(last.prev.given[1]))>>

\* C13 witness: 300 stored atomically and read back as 255.
C13_Witness ==
    /\ last.op = "readAtomic"
    /\ last.kind = "Uint8Clamped"
    /\ last.prev.op = "writeAtomic"
    /\ last.prev.given = <<Small(300)>>
    /\ last.returned = <<Small(255)>>

\* C12: after two agents have interleaved writeFloat64Atomic(addr, a) and
\* writeFloat64Atomic(addr, b), a # b, readFloat64Atomic(addr) returns a or
\* b, never a mixture of their bytes; each write made one atomic store and
\* the read one atomic load.
C12_AtomicFloat ==
    agents # << >> =>
        /\ \A w \in Writers : agents[w].pc = "done" => agents[w].calls = 1
        /\ agents[Reader].pc = "done" =>
              /\ agents[Reader].calls = 1
              /\ \E w \in Writers : agents[Reader].value = agents[w].value

\* C12 witness: both agents wrote and the read returned the first agent's
\* value in full.
C12_Witness ==
    /\ agents # << >>
    /\ agents[Reader].pc = "done"
    /\ agents[1].value = "0.1"
    /\ agents[2].value = "-2.5"
    /\ agents[Reader].value = "0.1"
    /\ last.agent = Reader

StringWriteOps == {"write", "setValue"}

\* The last operation wrote a text through a Live string reference whose
\* allocated elements lie in the buffer that is both current and cached.
WroteText ==
    /\ last.op \in StringWriteOps
    /\ OnLive
    /\ LastRef.kind \in StringRefKinds
    /\ cachedHeap = currentHeap
    /\ AllViewsOf(cachedHeap)
    /\ last.address + allocatedByteCount(LastRef) <= Len(bufs[cachedHeap])

\* C14: a text written through a Live string reference of capacity at least
\* the text's length plus one is what reading the reference returns then,
\* whatever the reference held before.
C14_StringRoundTrip ==
    (WroteText /\ Len(last.given) + 1 <= LastRef.count) =>
        /\ ~last.err
        /\ LET x == StringRef_read(Ctx, LastRef) IN
           ~x.c.err /\ x.v = last.given

\* C14 witness: a text of one character written over a longer one, in
\* UTF-16.
C14_Witness ==
    /\ WroteText
    /\ LastRef.kind = "NullTerminatedUtf16StringRef"
    /\ last.given = <<65>>
    /\ last.changed # {}
    /\ ~last.err

\* C15: write(T) through a Live string reference of capacity C, where T
\* with its terminator needs more than C elements, throws and changes no
\* element at offset C or beyond.
C15_StringTruncation ==
    (WroteText /\ Len(last.given) + 1 > LastRef.count) =>
        /\ last.err
        /\ \A i \in last.changed : i <= last.address + allocatedByteCount(LastRef)

\* The offsets, in elements from the reference's address, of the zero
\* elements among the reference's allocated elements.
ZeroOffsets(ref) ==
    LET w == bytesPerElement(ref) IN
    {j \in 0..(ref.count - 1) :
        \A i \in 1..w : bufs[cachedHeap][ref.address + j * w + i] = 0}

\* C16: every Live string reference has a zero element among its allocated
\* elements, and encodedElementCount returns the offset of the first one
\* without throwing.
C16_Terminated ==
    \A r \in 1..Len(refs) :
        (/\ refs[r].kind \in StringRefKinds
         /\ ~isFreed(refs[r])
         /\ cachedHeap = currentHeap
         /\ AllViewsOf(cachedHeap)
         /\ refs[r].address + allocatedByteCount(refs[r]) <= Len(bufs[cachedHeap])) =>
            /\ ZeroOffsets(refs[r]) # {}
            /\ LET n == encodedElementCount(Ctx, refs[r]) IN
               /\ ~n.c.err
               /\ n.v \in ZeroOffsets(refs[r])
               /\ \A j \in ZeroOffsets(refs[r]) : n.v <= j

\* The offsets, in elements of w bytes from address, of the zero elements
\* of the cached buffer.
ZerosFrom(address, w) ==
    {j \in 0..((Len(bufs[cachedHeap]) - address) \div w - 1) :
        \A i \in 1..w : bufs[cachedHeap][address + j * w + i] = 0}

\* The text the heap holds at address in elements of w bytes: the elements
\* before the first zero element.
HeldText(address, w) ==
    LET n == CHOOSE j \in ZerosFrom(address, w) : \A z \in ZerosFrom(address, w) : j <= z IN
    [j \in 1..n |-> LittleEndian(bufs[cachedHeap], address + (j - 1) * w, w)]

\* C17: a reference that wrapNullTerminated<Encoding>String(A) returned for
\* a text T held at A with its terminator is of the encoding's class, its
\* read() returns T and its encodedElementCount is T's length.
C17_WrapExisting ==
    (/\ last.op \in {"read", "encodedElementCount"}
     /\ OnLive
     /\ cachedHeap = currentHeap
     /\ AllViewsOf(cachedHeap)
     /\ ZerosFrom(last.address, bytesPerElement(LastRef)) # {}) =>
        /\ ~last.err
        /\ last.op = "read" =>
              last.text = HeldText(last.address, bytesPerElement(LastRef))
        /\ last.op = "encodedElementCount" =>
              last.value = <<Len(HeldText(last.address, bytesPerElement(LastRef)))>>

\* The buffer getCurrentBuffer() returns.
CurrentBuffer == bufs[currentHeap]

\* The bytes of [address, address + byteCount), as 1-based positions.
Region(address, byteCount) == (address + 1)..(address + byteCount)

\* The zero fill of the last allocation as the claim describes it: the
\* region of the current buffer is zero and the rest is as the allocator
\* left it; with the option disabled nothing is changed.
ZeroFilled ==
    IF options.clearAllocatedRegions
    THEN /\ Len(CurrentBuffer) = Len(last.before)
         /\ \A i \in 1..Len(CurrentBuffer) :
               CurrentBuffer[i] = IF i \in Region(last.address, last.byteCount)
                                  THEN 0 ELSE last.before[i]
    ELSE CurrentBuffer = last.before

AllocatedInHeap ==
    /\ last.op = "allocUint8Array"
    /\ ~last.err
    /\ last.address + last.byteCount <= Len(CurrentBuffer)

\* C18 as stated: in every polling mode an allocation with
\* clearAllocatedRegions enabled leaves every byte of the allocated region
\* of the current buffer zero and changes no other byte; with the option
\* disabled it changes no byte.
C18_ZeroFill == AllocatedInHeap => ZeroFilled

\* C18 amended: the zero fill is as stated whenever the buffer the manager
\* has cached after the allocation is the current one, which it is under
\* 'always', and under 'whenEmpty' once every replaced buffer is detached.
C18_ZeroFillWhenSeen ==
    AllocatedInHeap =>
        /\ cachedHeap = currentHeap => ZeroFilled
        /\ options.pollingMode = "always" => ZeroFilled
        /\ (/\ options.pollingMode = "whenEmpty"
            /\ \A b \in 1..Len(bufs) : b # currentHeap => Len(bufs[b]) = 0) => ZeroFilled

\* An allocator that grew and detached a heap holding nonzero bytes in the
\* region, under 'whenEmpty' with the fill enabled: the region is zero and a
\* byte outside it is still nonzero.
C18_Witness ==
    /\ AllocatedInHeap
    /\ last.grown /\ last.detached
    /\ options.pollingMode = "whenEmpty"
    /\ options.clearAllocatedRegions
    /\ \E i \in Region(last.address, last.byteCount) : last.before[i] # 0
    /\ \E i \in 1..Len(CurrentBuffer) : CurrentBuffer[i] # 0
    /\ ZeroFilled

\* C19: free(address) calls deallocate once, with that address, and changes
\* neither a reference nor the heap; a reference wrapping the address stays
\* Live, and a later free() of it deallocates the address again.
C19_RawFree ==
    /\ last.op = "freeAddress" =>
          /\ ~last.err
          /\ last.dealloc = <<last.address>>
          /\ ~last.heapChanged
          /\ refs = last.refsBefore
          /\ \A r \in 1..Len(refs) :
                last.refsBefore[r].address = last.address => ~isFreed(refs[r])
    /\ last.op = "free" /\ last.address \in registry.released /\ ~last.err =>
          /\ Len(SelectSeq(last.dealloc, LAMBDA a : a = last.address)) >= 1
          /\ isFreed(refs[last.ref])

\* An address freed raw while a Live reference wraps it.
C19_Witness ==
    /\ last.op = "freeAddress"
    /\ \E r \in 1..Len(refs) : refs[r].address = last.address
    /\ last.dealloc = <<last.address>>

\* The cells of the r-th reference still registered, and those whose
\* callback has run.
Cells(r) == SelectSeq(registry.cells, LAMBDA cell : cell.target = r)

Finalized(r) == SelectSeq(registry.finalized, LAMBDA cell : cell.target = r)

AllocOps == {"alloc", "allocInitial", "allocElements", "allocText"}

\* C20: with automatic reclamation enabled every reference an alloc method
\* returns is registered, and for a reference that became unreachable
\* without an explicit free() the callback deallocates its address, once;
\* a reference made by wrap is never registered.
C20_ReclaimedOnce ==
    /\ last.op \in AllocOps /\ ~last.err /\ options.enableGarbageCollection =>
          Len(Cells(last.ref)) >= 1
    /\ last.op = "wrap" => Len(Cells(last.ref)) = 0
    /\ last.op = "finalize" => last.dealloc = <<last.address>>
    /\ \A r \in 1..Len(refs) :
          r \in registry.unreachable /\ ~isFreed(refs[r]) =>
             /\ Len(Finalized(r)) <= 1
             /\ \A i \in 1..Len(Finalized(r)) : Finalized(r)[i].held = refs[r].address
             /\ \A i \in 1..Len(Cells(r)) : Cells(r)[i].held = refs[r].address

\* v is an integer of [0, 2^53 - 1].
IsPointer53(v) == ~v.neg /\ v.mag[8] = 0 /\ v.mag[7] < 32

\* C27: a pointer53 value written to an 8-aligned cell of the heap, on the
\* plain or the atomic path, is in the heap as an unsigned 64-bit
\* little-endian integer, which readBigUint64 returns, and the next
\* readPointer53 or readPointer53Atomic returns the value.
C27_Pointer53 ==
    /\ (/\ last.op \in {"write", "writeAtomic"}
        /\ last.kind = "Pointer53"
        /\ CellInHeap("Pointer53", last.address)
        /\ IsPointer53(last.given[1])) =>
          /\ ~last.err
          /\ \A i \in 1..8 : bufs[currentHeap][last.address + i] = last.given[1].mag[i]
          /\ readNumeric(Ctx, "BigUint64", last.address).v = last.given
    /\ (/\ last.op \in {"read", "readAtomic"}
        /\ last.kind = "Pointer53"
        /\ CellInHeap("Pointer53", last.address)
        /\ IsPointer53(last.prev.given[1])) =>
          /\ ~last.err
          /\ last.returned = last.prev.given

\* C27 witness: 2^53 - 1 stored by the atomic write and returned by the
\* plain read.
C27_Witness ==
    /\ last.op = "read"
    /\ last.kind = "Pointer53"
    /\ last.prev.op = "writeAtomic"
    /\ last.address = 8
    /\ last.returned = <<MaxSafeInteger>>

ArrayWriteOps == {"writeAt", "writeAtomicAt"}

\* The last operation wrote through a Live typed-array reference whose
\* elements lie in the heap at a multiple of their width.
WroteElement ==
    /\ last.op \in ArrayWriteOps
    /\ last.address # 0
    /\ last.address % ArrayRef_bytesPerElement(LastRef) = 0
    /\ last.address + LastRef.count * ArrayRef_bytesPerElement(LastRef)
          <= Len(bufs[currentHeap])

\* The bytes of element index of the reference, as 1-based positions.
ElementBytes(ref, index) ==
    (ref.address + index * ArrayRef_bytesPerElement(ref) + 1)
        ..(ref.address + (index + 1) * ArrayRef_bytesPerElement(ref))

\* What view[j] is for a view just fetched.
ViewElement(K, view, j) ==
    <<LoadedValue(K, view.kind, ElementBits(Ctx, view.kind, view.begin + j))>>

\* C21: a value of the kind written at an index below the element count of
\* a Live typed-array reference is what readAt returns at that index, no
\* other element is changed, the view has elementCount elements and view[j]
\* is readAt(j) for each of them; readAt on the reference once freed throws.
C21_IndexedAccess ==
    /\ (/\ WroteElement
        /\ last.index < LastRef.count
        /\ Representable(LastRef.kind, last.given[1])
        /\ LastRef.kind = "Pointer53" => IsPointer53(last.given[1])) =>
          /\ ~last.err
          /\ ArrayRef_readAt(Ctx, LastRef, last.index).v = last.given
          /\ last.changed \subseteq ElementBytes(LastRef, last.index)
          /\ LET x == ArrayRef_view(Ctx, LastRef) IN
             /\ ~x.c.err
             /\ x.v.end - x.v.begin = LastRef.count
             /\ \A j \in 0..(LastRef.count - 1) :
                   ViewElement(LastRef.kind, x.v, j) = ArrayRef_readAt(Ctx, LastRef, j).v
    /\ last.op = "readAt" /\ last.ref # 0 /\ last.address = 0 => last.err

\* C21 witness: the least int16 written at index 1 over another value.
C21_Witness ==
    /\ WroteElement
    /\ LastRef.kind = "Int16"
    /\ last.index = 1
    /\ last.given = <<MinValue("Int16")>>
    /\ last.changed = {12}
    /\ ~last.err

\* C22: writeAt and writeAtomicAt at an index that is not below the element
\* count throw and change no byte outside the reference's allocated bytes.
C22_IndexOutOfRange ==
    (WroteElement /\ last.index >= LastRef.count) =>
        /\ last.err
        /\ \A i \in last.changed :
              /\ i > last.address
              /\ i <= last.address + LastRef.count * ArrayRef_bytesPerElement(LastRef)

\* The offsets the scan of the last operation examines that hold a zero
\* element.
ScannedZeros ==
    {j \in ZerosFrom(last.address, last.width) : last.max = << >> \/ j < last.max[1]}

\* C23: the scan from an address that is a multiple of the width returns
\* the offset of the first zero element among the elements examined, those
\* at [0, max) when max is given and those up to the end of the heap when it
\* is not, and throws when none of them is zero.
C23_Discovery ==
    (/\ last.op = "getElementCountOfNullTerminatedString"
     /\ last.address % last.width = 0) =>
        IF ScannedZeros = {}
        THEN last.err
        ELSE /\ ~last.err
             /\ last.value = <<CHOOSE j \in ScannedZeros : \A z \in ScannedZeros : j <= z>>

\* C23 witness: a scan in elements of two bytes passes the element 0x0003
\* and finds the terminator at offset 2.
C23_Witness ==
    /\ last.op = "getElementCountOfNullTerminatedString"
    /\ last.address = 8
    /\ last.width = 2
    /\ last.max = <<3>>
    /\ bufs[currentHeap][12] = 0
    /\ last.value = <<2>>

\* C24: when the external allocate throws, the alloc method throws after
\* that one call of allocate, issues no reference, changes no heap byte,
\* calls no deallocate and registers nothing.
C24_AllocationFailure ==
    (last.op \in AllocOps /\ last.op # "alloc" /\ last.threw) =>
        /\ last.err
        /\ last.allocs = 1
        /\ last.ref = 0
        /\ refs = last.refsBefore
        /\ ~last.heapChanged
        /\ last.dealloc = << >>
        /\ registry = last.registryBefore

\* C24 witness: the allocator threw under alloc<Kind>Array(elements) with
\* automatic reclamation enabled, on a heap holding nonzero bytes.
C24_Witness ==
    /\ last.op = "allocElements"
    /\ last.threw
    /\ last.err
    /\ options.enableGarbageCollection
    /\ \E i \in 1..Len(bufs[currentHeap]) : bufs[currentHeap][i] # 0

\* The last operation was allocNullTerminated<Encoding>String(elementCount)
\* and returned a reference.
AllocatedString ==
    /\ last.op = "alloc"
    /\ ~last.err
    /\ last.kind \in StringRefKinds

\* C25: allocNullTerminated<Encoding>String(elementCount) asks the external
\* allocate for elementCount elements of the encoding's width, and the
\* reference's allocatedElementCount is elementCount.
C25_ElementsInTotal ==
    AllocatedString =>
        /\ last.requested = <<last.count * BytesPerElement(ElementKind(last.kind))>>
        /\ LastRef.count = last.count

\* The reference wrapNullTerminatedUtf8String(address, maxElementCount)
\* returns.
WrappedUtf8(address, maxElementCount) ==
    [kind |-> "NullTerminatedUtf8StringRef", address |-> address, count |-> maxElementCount]

\* The texts of up to one character more than the reference can hold.
TextsAround(ref) == UNION {[1..n -> Chars] : n \in 0..ref.count}

\* C26: write(T) and the read() after it through the reference
\* allocNullTerminatedUtf8String(maxElementCount) returned do what they do
\* through a reference wrapNullTerminatedUtf8String returns for the same
\* address and capacity, for every text T.
C26_Utf8Reference ==
    (AllocatedString /\ last.kind = "NullTerminatedUtf8StringRef") =>
        \A t \in TextsAround(LastRef) :
            LET mine == StringRef_write(Ctx, LastRef, t)
                theirs == StringRef_write(Ctx, WrappedUtf8(LastRef.address, LastRef.count), t) IN
            /\ mine.err = theirs.err
            /\ mine.bufs = theirs.bufs
            /\ StringRef_read([mine EXCEPT !.err = FALSE], LastRef).v
                  = StringRef_read([theirs EXCEPT !.err = FALSE],
                                   WrappedUtf8(LastRef.address, LastRef.count)).v

\* The last operation was on 128-bit or 256-bit cells at a multiple of 8
\* that lie in the heap.
WideInHeap ==
    /\ last.op \in WideOps
    /\ last.address % 8 = 0
    /\ last.address + 8 * last.words <= Len(bufs[currentHeap])

\* Byte i of the little-endian layout of a value.
WideByte(value, i) == IF i <= Len(value) THEN value[i] ELSE 0

\* C28: writeBigUint128LE and writeBigUint256LE at a multiple of 8 store the
\* value's 64-bit words least significant first, that is the value's 16 or
\* 32 little-endian bytes from the address on, and change no other byte;
\* readBigUint128LE and readBigUint256LE then return the value.
C28_WideRoundTrip ==
    WideInHeap =>
        /\ ~last.err
        /\ last.op = "writeBigUintLE" =>
              /\ \A i \in 1..(8 * last.words) :
                    bufs[currentHeap][last.address + i] = WideByte(last.given[1], i)
              /\ \A i \in last.changed :
                    i > last.address /\ i <= last.address + 8 * last.words
        /\ last.op = "readBigUintLE" =>
              /\ last.returned = last.written
              /\ last.changed = {}

\* A 256-bit value with distinct bytes was written over other bytes and
\* read back.
C28_Witness ==
    /\ WideInHeap
    /\ last.op = "readBigUintLE"
    /\ last.words = 4
    /\ last.returned = <<Counting(32)>>
    /\ last.writes = 2

\* The byte indices of the region [address, address + allocatedByteCount) of
\* a reference.
AllocatedRegion(ref) ==
    {i \in Nat : i > ref.address /\ i <= ref.address + allocatedByteCount(ref)}

\* The step is clear() on a reference that is not freed, by a manager whose
\* cached buffer is, after its polling, the heap's current one.
ClearsLive ==
    /\ last'.op = "clear"
    /\ ~isFreed(refs[last'.ref])
    /\ cachedHeap' = currentHeap

\* C29: clear() on a reference that is not freed zeroes the heap's bytes in
\* [address, address + allocatedByteCount), leaves every other byte of every
\* buffer, the reference's address and the other references as they were,
\* does not throw and calls neither allocate nor deallocate.
C29_Clear ==
    [][ClearsLive =>
            /\ ~last'.err
            /\ Len(bufs') = Len(bufs)
            /\ \A b \in 1..Len(bufs) :
                  /\ Len(bufs'[b]) = Len(bufs[b])
                  /\ \A i \in 1..Len(bufs[b]) :
                        bufs'[b][i] = IF b = currentHeap /\ i \in AllocatedRegion(refs[last'.ref])
                                      THEN 0 ELSE bufs[b][i]
            /\ refs' = refs
            /\ last'.dealloc = << >>
            /\ last'.allocs = 0]_vars

\* clear() has zeroed bytes of a reference of two four-byte elements in the
\* heap's current buffer.
C29_Witness ==
    /\ last.op = "clear"
    /\ ~last.err
    /\ last.heapChanged
    /\ cachedHeap = currentHeap
    /\ ~isFreed(LastRef)
    /\ allocatedByteCount(LastRef) > LastRef.count
    /\ \A i \in 1..Len(bufs[currentHeap]) :
          i \in AllocatedRegion(LastRef) => bufs[currentHeap][i] = 0

\* C30: every address an arena allocator's allocate returns, through any
\* allocations and resets, is a multiple of the alignment constant and not
\* 0; the first address returned is the alignment constant itself.
C30_NeverZero ==
    (last.op = "allocate" /\ ~last.err) =>
        /\ last.returned[1] # 0
        /\ last.returned[1] % arena.alignmentConstant = 0
        /\ ~last.returnedBefore => last.returned[1] = arena.alignmentConstant

\* An allocation of a fractional size after others, from an allocator
\* aligned to 3 bytes whose memory has grown.
C30_Witness ==
    /\ last.op = "allocate"
    /\ ~last.err
    /\ last.returnedBefore
    /\ last.given = 7
    /\ arena.alignmentConstant = 3
    /\ last.returned[1] > 3
    /\ arena.capacity > last.capacityBefore

\* The references the manager holds on to: the targets of the cells of its
\* FinalizationRegistry, the only collection of references it has.
Tracked == {registry.cells[i].target : i \in 1..Len(registry.cells)}

\* C31: a manager constructed with the default options tracks the references
\* its alloc methods return and not those made by wrap: a reference just
\* allocated, which is not freed, is among the tracked ones.
C31_AllocationTracking ==
    options = defaultWasmHeapManagerOptions =>
        /\ last.op \in AllocOps /\ ~last.err /\ ~isFreed(LastRef) => last.ref \in Tracked
        /\ last.op = "wrap" => last.ref \notin Tracked

\* C32: free() with a cascade option on a reference that is already freed, a
\* pointer array with freeElements or a pointer with freePointedAddress, is
\* a no-op: it throws nothing, accesses no heap byte and calls no
\* deallocate.
C32_RepeatedCascadeFree ==
    (/\ last.op = "free"
     /\ OnFreed
     /\ \/ LastRef.kind \in PointerArrayRefKinds /\ last.freeOptions.freeElements
        \/ LastRef.kind \in PointerRefKinds /\ last.freeOptions.freePointedAddress) =>
        /\ ~last.err
        /\ last.acc = << >>
        /\ last.dealloc = << >>
        /\ ~last.heapChanged
        /\ isFreed(LastRef)

\* Under 'whenEmpty' the manager's cached buffer is a superseded one that
\* still has its bytes.
Stale ==
    /\ options.pollingMode = "whenEmpty"
    /\ cachedHeap # currentHeap
    /\ Len(bufs[cachedHeap]) > 0

ManagerAccesses == {"readUint8", "writeUint32"}

\* The four bytes at address of a buffer are those of the value given to the
\* last writeUint32.
Holds(buffer, address, bits) ==
    /\ address + Len(bits) <= Len(buffer)
    /\ \A i \in 1..Len(bits) : buffer[address + i] = bits[i]

\* C33: under 'whenEmpty' an allocation that grows the heap into a new buffer
\* and leaves the old one at its length leaves the manager on the old
\* buffer, and it stays there: later reads and writes call no heapGetter, go
\* to the superseded buffer and leave the current heap's bytes as they are;
\* under 'always' each read and write is done on the current heap.
C33_NeverPickedUp ==
    [][/\ (/\ options.pollingMode = "whenEmpty"
           /\ Len(bufs[cachedHeap]) > 0
           /\ last'.op = "allocUint8Array"
           /\ last'.grown
           /\ ~last'.detached) => Stale'
       /\ Stale =>
             /\ Stale'
             /\ cachedHeap' = cachedHeap
             /\ last'.op \in ManagerAccesses =>
                   /\ last'.getterCalls = 0
                   /\ bufs'[currentHeap] = bufs[currentHeap]
             /\ (last'.op = "writeUint32" /\ last'.address + 4 <= Len(bufs[cachedHeap])) =>
                   Holds(bufs'[cachedHeap], last'.address, last'.value[1])
             /\ (last'.op = "readUint8" /\ last'.address < Len(bufs[cachedHeap])) =>
                   last'.value = <<<<bufs[cachedHeap][last'.address + 1]>>>>
       /\ (/\ options.pollingMode = "always"
           /\ last'.op \in ManagerAccesses
           /\ Len(bufs[currentHeap]) > 0) =>
             /\ cachedHeap' = currentHeap
             /\ (last'.op = "writeUint32" /\ last'.address + 4 <= Len(bufs[currentHeap])) =>
                   Holds(bufs'[currentHeap], last'.address, last'.value[1])
             /\ (last'.op = "readUint8" /\ last'.address < Len(bufs[currentHeap])) =>
                   last'.value = <<<<bufs[currentHeap][last'.address + 1]>>>>]_vars

\* A value written after the heap grew into a second buffer under
\* 'whenEmpty': it is in the superseded buffer and not in the current heap.
C33_Witness ==
    /\ Stale
    /\ last.op = "writeUint32"
    /\ ~last.err
    /\ Holds(bufs[cachedHeap], last.address, last.value[1])
    /\ Len(bufs[currentHeap]) > Len(bufs[cachedHeap])
    /\ ~Holds(bufs[currentHeap], last.address, last.value[1])

\* C34: the finalization callback of a reference that was freed explicitly
\* (its address, the one held by the registry, was handed to deallocate by
\* free() and then set to 0) does not call deallocate again.
C34_AtMostOnce ==
    (/\ last.op = "finalize"
     /\ last.address # 0
     /\ isFreed(refs[last.ref])) => last.dealloc = << >>

\* The last operation was an alloc method whose allocate callback returned 0.
AllocatedAtNull ==
    /\ last.op \in AllocOps
    /\ last.allocatedAt = 0
    /\ last.op = "alloc" \/ ~last.threw

\* The bytes [0, byteCount) of the heap, as far as the heap reaches, are 0.
ZeroFrom0(byteCount) ==
    \A i \in 1..Len(CurrentBuffer) : i <= byteCount => CurrentBuffer[i] = 0

\* C35 as stated: every alloc method whose allocate returned 0 returns,
\* without throwing, a reference at address 0, after the zero fill of
\* [0, byteSize) when clearAllocatedRegions is enabled.
C35_NullIsNoFailure ==
    AllocatedAtNull =>
        /\ ~last.err
        /\ last.ref # 0
        /\ LastRef.address = 0
        /\ last.dealloc = << >>

\* C35 amended: the alloc methods called without an initial value do so;
\* those given an initial value, elements or a text go on to write through
\* the new reference, which throws as the reference counts as freed, except
\* allocNullTerminatedUtf8String(text), which stores through a view that is
\* not checked and returns when the text fits the heap.  No method calls deallocate, and later accesses of the
\* returned reference throw and its free() deallocates nothing.
C35_NullUnlessInitialised ==
    /\ AllocatedAtNull =>
          /\ last.allocs = 1
          /\ last.dealloc = << >>
          /\ ~options.clearAllocatedRegions /\ last.op = "alloc" => ~last.heapChanged
          /\ last.op = "alloc" =>
                /\ ~last.err
                /\ last.ref # 0
                /\ LastRef.address = 0
                /\ (options.clearAllocatedRegions /\ cachedHeap = currentHeap) =>
                      ZeroFrom0(last.requested[1])
          /\ last.op \in {"allocInitial", "allocElements"} => last.err /\ last.ref = 0
          /\ last.op = "allocText" =>
                IF refs[Len(refs)].kind = "NullTerminatedUtf8StringRef"
                THEN Len(last.given) < Len(bufs[cachedHeap]) =>
                        ~last.err /\ LastRef.address = 0
                ELSE last.err /\ last.ref = 0
    /\ (last.op \in {"read", "write", "clear"} /\ OnFreed) => last.err
    /\ (last.op = "free" /\ OnFreed) => last.dealloc = << >> /\ LastRef.address = 0

\* An array of two pointers allocated at 0 over nonzero bytes, with the fill
\* enabled: the reference is returned, its address is 0 and its eight bytes
\* are zero.
C35_Witness ==
    /\ AllocatedAtNull
    /\ last.op = "alloc"
    /\ ~last.err
    /\ LastRef.address = 0
    /\ LastRef.kind = "Pointer32ArrayRef"
    /\ options.clearAllocatedRegions
    /\ last.heapChanged
    /\ ZeroFrom0(last.requested[1])

\* The last call of deallocate made by the last operation threw.
DeallocateThrew ==
    /\ last.dealloc # << >>
    /\ last.dealloc[Len(last.dealloc)] \in last.throwing

\* C36: free() on a Live reference throws exactly when a call of deallocate
\* it made threw, which is then its last call; the reference then keeps its
\* address and stays Live, otherwise its address is 0; and a free() after
\* one that threw calls deallocate for the same address again.
C36_DeallocateThrows ==
    (last.op = "free" /\ OnLive) =>
        /\ last.err <=> DeallocateThrew
        /\ \A i \in 1..(Len(last.dealloc) - 1) : last.dealloc[i] \notin last.throwing
        /\ LastRef.address = IF last.err THEN last.address ELSE 0
        /\ ~last.err => last.dealloc[Len(last.dealloc)] = last.address
        /\ (last.retried /\ last.throwing = {}) =>
              /\ ~last.err
              /\ last.dealloc[Len(last.dealloc)] = last.address

\* deallocate threw for the reference's own address, and the free() after it
\* handed the same address to deallocate.
C36_Witness ==
    /\ last.op = "free"
    /\ OnLive
    /\ last.retried
    /\ ~last.err
    /\ last.dealloc = <<last.address>>
    /\ isFreed(LastRef)

\* The last operation was a plain read or write of a cell of 2, 4 or 8 bytes
\* at an address that is not a multiple of that width.
Unaligned ==
    /\ last.op \in {"read", "write"}
    /\ BytesPerElement(CellView(last.kind)) > 1
    /\ last.address % BytesPerElement(CellView(last.kind)) # 0

ReadBetweenStores(old, new) ==
    /\ agents # << >>
    /\ agents[Reader].pc = "done"
    /\ Len(agents[Reader].bits) = 16
    /\ \A i \in 1..2 : agents[Reader].pending[i] = [w \in Writers |-> IF w = new THEN 1 ELSE 2]
    /\ agents[new].after[old] = 2

\* C38: writeBigUint128LE stores the low word and then the high word as two
\* events on the shared buffer, so a readBigUint128LE whose loads fall
\* between the two stores returns the new value's low word with the old
\* value's high word; whatever the interleaving, each word read is a word
\* some agent stored or the initial one.
C38_TornRead ==
    /\ \A old, new \in Writers :
          (old # new /\ ReadBetweenStores(old, new)) =>
              agents[Reader].value
                  = BigUint(WordOf(agents[new].value, 0) \o WordOf(agents[old].value, 1))
    /\ (agents # << >> /\ Len(agents[Reader].bits) = 16) =>
          \A n \in 0..1 :
              \/ WordOf(agents[Reader].bits, n) = WordOf(<< >>, n)
              \/ \E w \in Writers :
                    /\ agents[w].pc # "idle"
                    /\ WordOf(agents[Reader].bits, n) = WordOf(agents[w].value, n)

\* A read between the two stores returned a value that neither agent wrote.
C38_Witness ==
    /\ ReadBetweenStores(1, 2)
    /\ agents[1].value = AllOnes(16)
    /\ agents[2].value = Counting(16)
    /\ agents[Reader].value # agents[1].value
    /\ agents[Reader].value # agents[2].value

\* C39: of the regions an arena allocator hands out without a reset in
\* between, each lies within the heap's capacity at the time allocate
\* returned, the start addresses never decrease, and no two regions share a
\* byte.
C39_Regions ==
    \A i, j \in 1..Len(Regions) :
        LET r == Regions[i]
            q == Regions[j] IN
        /\ 2 * r.start + r.size <= 2 * r.capacity
        /\ i < j => r.start <= q.start
        /\ i < j => 2 * r.start + r.size <= 2 * q.start

\* Three regions of nonzero size, one of a fractional size, with a growth of
\* the heap between the first and the last.
C39_Witness ==
    /\ Len(Regions) = 3
    /\ \A i \in 1..3 : Regions[i].size > 0
    /\ \E i \in 1..3 : Regions[i].size % 2 = 1
    /\ Regions[1].capacity < Regions[3].capacity

\* The last operation was an allocate of the arena allocator that grew the heap.
Grew == last.op = "allocate" /\ arena # NoArena /\ bufs # << >> /\ last.grown

\* The heap after a growth: twice the new end address long, the old heap's
\* bytes where they were and zeros after them, the old buffer as it was.
GrownHeap ==
    /\ Len(bufs[currentHeap]) = 2 * arena.currentAllocationAddress
    /\ \A i \in 1..Len(bufs[currentHeap]) :
          bufs[currentHeap][i] = IF i <= Len(last.before) THEN last.before[i] ELSE 0
    /\ currentHeap # last.heapBefore
    /\ bufs[last.heapBefore] = last.before

\* C40 as stated: when ArrayBufferArenaAllocator.allocate grows, the new heap
\* has capacity twice the new end address, holds every byte of the old heap
\* at its address and zeros beyond the old capacity, and the old buffer is
\* left as it was with a nonzero length.
C40_GrowthPreserves ==
    Grew => GrownHeap /\ Len(bufs[last.heapBefore]) > 0

\* C40 amended: the same, the old buffer keeping the length it had, which is
\* nonzero unless the allocator was constructed with a capacity of 0.
C40_GrowthKeepsOld ==
    Grew => /\ GrownHeap
            /\ Len(bufs[last.heapBefore]) = Len(last.before)
            /\ Len(last.before) = 0 => last.heapBefore = 1

\* A growth of a heap that held a nonzero byte.
C40_Witness ==
    /\ Grew
    /\ \E i \in 1..Len(last.before) : last.before[i] # 0
    /\ Len(bufs[currentHeap]) > Len(last.before)

====
